---- MODULE Spec2Model ----
(***************************************************************************)
(* A model of the FPL MCP server: the bootstrap cache                      *)
(* (src/utils/bootstrap-cache.ts), the error classifier                    *)
(* (src/utils/error-handler.ts) and the tool handlers (src/tools/*.ts).    *)
(*                                                                         *)
(* JavaScript values are tagged records: [t |-> "null"],                   *)
(* [t |-> "undefined"], [t |-> "array", items |-> <<...>>],                *)
(* [t |-> "obj", ...].  Time is Date.now() in milliseconds.                *)
(***************************************************************************)
EXTENDS Integers, Sequences, FiniteSets, TLC

VARIABLES clock, cache, lastFetch, calls, clearPending, cacheOld, nodeEnv, last,
          server

vars == <<clock, cache, lastFetch, calls, clearPending, cacheOld, nodeEnv, last,
          server>>

----------------------------------------------------------------------------
\* Bounds of the model.

\* Number of getBootstrapData invocations whose history is kept at a time
\* (a settled invocation can be forgotten and its slot taken again).
MaxCalls == 2

\* Number of clock steps in one behaviour.
MaxTicks == 2

Calls == 1..MaxCalls

----------------------------------------------------------------------------
\* JavaScript values.

Null == [t |-> "null"]

Undefined == [t |-> "undefined"]

Arr(items) == [t |-> "array", items |-> items]

\* The integer n, and the non-integer n + 1/2.
Num(n) == [t |-> "number", v |-> n, frac |-> FALSE]

Half(n) == [t |-> "number", v |-> n, frac |-> TRUE]

\* A string is the sequence of its characters.
Str(chars) == [t |-> "string", chars |-> chars]

\* A string constant of the program.
Lit(text) == [t |-> "string", text |-> text]

\* An object that is not an array: what a malformed response holds where a
\* collection is expected.
NotArray == [t |-> "obj"]

IsArray(v) == v.t = "array"

\* JavaScript truthiness: null, undefined, the empty string and 0 are
\* falsy; every object and every array, the empty array included, is truthy.
Truthy(v) ==
    /\ v.t \notin {"null", "undefined"}
    /\ ~(v.t = "string" /\ "chars" \in DOMAIN v /\ v.chars = <<>>)
    /\ ~(v.t = "number" /\ v.v = 0 /\ ~v.frac)

\* Array.prototype.find: the first of the items that satisfy the test
\* (given as the items filtered by it), or undefined.
Find(matching) == IF Len(matching) = 0 THEN Undefined ELSE matching[1]

----------------------------------------------------------------------------
\* The cache's constant.

CACHE_TTL == 3600000

\* The clock starts at a Date.now() far above one TTL and advances by half
\* a TTL, so that ages 0, TTL/2, TTL (the boundary) and 3*TTL/2 all occur.
StartTime == 2 * CACHE_TTL

Tick == CACHE_TTL \div 2

----------------------------------------------------------------------------
\* Upstream bootstrap data.

Player(id, web, first, second, team, etype, cost, points) ==
    [t |-> "obj", id |-> id, web_name |-> web, first_name |-> first,
     second_name |-> second, team |-> team, element_type |-> etype,
     now_cost |-> cost, total_points |-> points]

Team(id, name, short, code) ==
    [t |-> "obj", id |-> id, name |-> name, short_name |-> short, code |-> code]

ElementType(id, singular) == [t |-> "obj", id |-> id, singular_name |-> singular]

Event(id, current, next, finished) ==
    [t |-> "obj", id |-> id, is_current |-> current, is_next |-> next,
     finished |-> finished, deadline_time |-> 1000 + id]

Bootstrap(elements, teams, types, events) ==
    [t |-> "obj", elements |-> elements, teams |-> teams,
     element_types |-> types, events |-> events]

AllTeams ==
    Arr(<<Team(1, Str(<<"A", "r", "s">>), Str(<<"A", "R", "S">>), 3),
          Team(2, Str(<<"L", "i", "v">>), Str(<<"L", "I", "V">>), 14)>>)

AllTypes ==
    Arr(<<ElementType(1, "Goalkeeper"), ElementType(2, "Defender"),
          ElementType(3, "Midfielder"), ElementType(4, "Forward")>>)

AllEvents == Arr(<<Event(1, TRUE, FALSE, FALSE), Event(2, FALSE, TRUE, FALSE)>>)

Saka == Player(1, Str(<<"S", "a", "k", "a">>), Str(<<"B", "u">>),
               Str(<<"S", "a", "k", "a">>), 1, 3, 100, 60)

Salah == Player(2, Str(<<"S", "a", "l", "a", "h">>), Str(<<"M", "o">>),
                Str(<<"S", "a", "l", "a", "h">>), 2, 3, 125, 80)

\* A player of no listed team.
Haaland == Player(3, Str(<<"H", "a", "a">>), Str(<<"E", "r">>),
                  Str(<<"H", "a", "a">>), 13, 4, 150, 90)

\* Two complete snapshots that differ in their players: a price has
\* changed, a player has left and another has come.
SnapA == Bootstrap(Arr(<<Saka, Salah>>), AllTeams, AllTypes, AllEvents)

SnapB == Bootstrap(Arr(<<[Salah EXCEPT !.now_cost = 126], Haaland>>), AllTeams, AllTypes, AllEvents)

\* Responses that lack the players or hold none.
NoElements == [SnapA EXCEPT !.elements = Undefined]

EmptyElements == [SnapA EXCEPT !.elements = Arr(<<>>)]

\* Fixtures: the kickoff time is null or an ISO date, kept as the instant
\* it denotes; a score is null until the match is played.
Kickoff(at) == [t |-> "string", at |-> at]

FixtureOf(id, event, home, away, kickoff, homeScore, awayScore, finished) ==
    [t |-> "obj", id |-> id, event |-> event, team_h |-> home, team_a |-> away,
     kickoff_time |-> kickoff, team_h_score |-> homeScore,
     team_a_score |-> awayScore, finished |-> finished]

Fixtures ==
    Arr(<<FixtureOf(11, 1, 1, 2, Kickoff(30), Null, Null, FALSE),
          FixtureOf(12, 1, 2, 1, Null, Null, Null, FALSE),
          FixtureOf(13, 3, 1, 2, Kickoff(50), Null, Null, FALSE),
          FixtureOf(14, 1, 2, 1, Kickoff(20), Num(2), Num(0), TRUE),
          FixtureOf(15, 1, 1, 2, Kickoff(20), Num(1), Num(1), TRUE)>>)

\* A fixture of a team the bootstrap data does not list.
StrayFixtures == Arr(<<FixtureOf(16, 1, 1, 7, Kickoff(10), Null, Null, FALSE)>>)

\* A manager and the picks of a gameweek.
Manager == [t |-> "obj", name |-> Str(<<"A", "n", "n">>), current_event |-> 1]

Pick(element, etype, position, captain, vice) ==
    [t |-> "obj", element |-> element, element_type |-> etype,
     position |-> position, is_captain |-> captain, is_vice_captain |-> vice,
     multiplier |-> IF captain THEN 2 ELSE IF position <= 11 THEN 1 ELSE 0]

EntryHistory ==
    [t |-> "obj", points |-> 55, total_points |-> 120, overall_rank |-> 1000,
     rank |-> 500, value |-> 1003, bank |-> 7]

Picks(picks, history) ==
    [t |-> "obj", picks |-> picks, entry_history |-> history, active_chip |-> Null]

\* 1 goalkeeper, 4 defenders, 4 midfielders and 2 forwards start; a
\* goalkeeper, two defenders and a forward sit on the bench.
Squad ==
    Arr(<<Pick(20, 1, 1, FALSE, FALSE),
          Pick(21, 2, 2, FALSE, FALSE), Pick(22, 2, 3, FALSE, FALSE),
          Pick(23, 2, 4, FALSE, FALSE), Pick(24, 2, 5, FALSE, FALSE),
          Pick(1, 3, 6, FALSE, TRUE), Pick(2, 3, 7, TRUE, FALSE),
          Pick(25, 3, 8, FALSE, FALSE), Pick(26, 3, 9, FALSE, FALSE),
          Pick(3, 4, 10, FALSE, FALSE), Pick(27, 4, 11, FALSE, FALSE),
          Pick(28, 1, 12, FALSE, FALSE), Pick(29, 2, 13, FALSE, FALSE),
          Pick(30, 2, 14, FALSE, FALSE), Pick(31, 4, 15, FALSE, FALSE)>>)

\* Picks without a captain, of an element type the data does not list.
Leaderless == Arr(<<Pick(1, 3, 1, FALSE, FALSE), Pick(2, 9, 12, FALSE, FALSE)>>)

\* An error thrown by the upstream client: it carries the HTTP status of
\* the response (0: there was no response) and a system error code
\* ("": none).
UpstreamError(status, code) ==
    [name |-> "Error", message |-> "request failed", code |-> code,
     response |-> IF status = 0 THEN Undefined
                  ELSE [t |-> "obj", status |-> status]]

Throws(err) == [t |-> "throw", err |-> err]

Resolves(data) == [t |-> "resolve", data |-> data]

NoResponse == [t |-> "none"]

\* What fpl.getBootstrapData() can answer to a cache refresh.
CacheResponses ==
    { Throws(UpstreamError(0, "ENOTFOUND")) }
    \cup { Resolves(d) : d \in {Null, NoElements, EmptyElements, SnapA, SnapB} }

\* The failures of an upstream call: rate limiting, no route to the host,
\* a timeout, a server error, a client error.
UpstreamFailures ==
    { Throws(UpstreamError(429, "")), Throws(UpstreamError(0, "ENOTFOUND")),
      Throws(UpstreamError(0, "ETIMEDOUT")), Throws(UpstreamError(503, "")),
      Throws(UpstreamError(404, "")) }

\* What fpl.getBootstrapData() can answer to a tool that goes through the
\* cache: a failure, null, data without players, complete data, and
\* malformed data (a collection that is no array, a player without name).
CachedBootstrapResponses ==
    UpstreamFailures
    \cup { Resolves(d) : d \in
            {Null, NoElements, EmptyElements, SnapA, SnapB,
             [SnapA EXCEPT !.elements = NotArray],
             [SnapA EXCEPT !.teams = NotArray],
             [SnapA EXCEPT !.elements = Arr(<<[Saka EXCEPT !.web_name = Undefined]>>)]} }

\* What it can answer to a handler that calls it directly: each
\* collection may be missing, empty or no array.
BootstrapResponses ==
    UpstreamFailures
    \cup { Resolves(d) : d \in
            {Null, SnapA, SnapB, [SnapA EXCEPT !.element_types = Null]}
            \cup { [SnapA EXCEPT !.elements = v] : v \in {Undefined, Arr(<<>>), NotArray} }
            \cup { [SnapA EXCEPT !.teams = v] : v \in {Undefined, Arr(<<>>), NotArray} } }

\* What it can answer to get_current_gameweek: the events may be missing,
\* malformed or none, and hold a current and a next event, a next event
\* only, no flagged event, or a finished current event only.
EventsResponses ==
    UpstreamFailures
    \cup { Resolves(d) : d \in
            {Null, SnapA}
            \cup { [SnapA EXCEPT !.events = v] : v \in
                    {Undefined, NotArray, Arr(<<>>),
                     Arr(<<Event(1, FALSE, FALSE, TRUE), Event(2, FALSE, TRUE, TRUE)>>),
                     Arr(<<Event(1, FALSE, FALSE, TRUE)>>),
                     Arr(<<Event(1, TRUE, FALSE, TRUE)>>)} } }

\* What fpl.getFixtures(), fpl.getManager() and
\* fpl.getManagerGameweekPicks() can answer; among the picks, the squad,
\* the squad with four forwards on the bench, and the squad with its last
\* starting defender turned midfielder.
FixturesResponses ==
    { Throws(UpstreamError(503, "")), Throws(UpstreamError(0, "ETIMEDOUT")) }
    \cup { Resolves(d) : d \in {Null, NotArray, Arr(<<>>), Fixtures, StrayFixtures} }

ManagerResponses ==
    { Throws(UpstreamError(404, "")), Resolves(Null), Resolves(Manager) }

StartingSlots == 11

PicksResponses ==
    { Throws(UpstreamError(0, "ETIMEDOUT")) }
    \cup { Resolves(d) : d \in {Null, Picks(Arr(<<>>), EntryHistory),
                                Picks(Squad, EntryHistory),
                                Picks(Arr([i \in 1..Len(Squad.items) |->
                                        IF i > StartingSlots
                                        THEN [Squad.items[i] EXCEPT !.element_type = 4]
                                        ELSE Squad.items[i]]), EntryHistory),
                                Picks(Arr([i \in 1..Len(Squad.items) |->
                                        IF i = 5
                                        THEN [Squad.items[i] EXCEPT !.element_type = 3]
                                        ELSE Squad.items[i]]), EntryHistory),
                                Picks(Leaderless, EntryHistory),
                                Picks(Leaderless, Undefined)} }

----------------------------------------------------------------------------
\* Errors raised by the server itself (error-handler.ts).

ErrorCodes ==
    {"VALIDATION_ERROR", "INVALID_PLAYER_ID", "INVALID_GAMEWEEK", "INVALID_TEAM_ID",
     "API_UNAVAILABLE", "API_TIMEOUT", "API_RATE_LIMITED", "API_INVALID_RESPONSE",
     "PLAYER_NOT_FOUND", "TEAM_NOT_FOUND", "GAMEWEEK_NOT_FOUND", "NO_DATA_AVAILABLE",
     "INTERNAL_ERROR", "NETWORK_ERROR"}

FPLError(code, message, details) ==
    [name |-> "FPLError", code |-> code, message |-> message, details |-> details]

\* new Error(message), and the TypeError of a property read or a method
\* call on a value that has none.
JsError(message) == [name |-> "Error", message |-> message]

TypeError == [name |-> "TypeError", message |-> "not a function or undefined"]


\* createErrorResponse, lines 50-61.
CreateErrorResponse(code, message, details) ==
    [t |-> "obj", error |-> TRUE, message |-> message, code |-> code,
     details |-> details]

\* handleValidationError, lines 66-68.
HandleValidationError(message, details) ==
    CreateErrorResponse("VALIDATION_ERROR", message, details)

\* error?.response?.status, with 0 standing for undefined (neither is 429
\* or at least 500), and error?.code === c.
ResponseStatus(error) ==
    IF "response" \in DOMAIN error /\ Truthy(error.response)
    THEN error.response.status ELSE 0

HasCode(error, c) == "code" \in DOMAIN error /\ error.code = c

\* The classification that looks at a server error before the error code.
HandleApiErrorStatusFirst(error) ==
    IF ResponseStatus(error) = 429
    THEN CreateErrorResponse("API_RATE_LIMITED",
            "FPL API rate limit exceeded. Please try again later.",
            [t |-> "obj", status |-> ResponseStatus(error)])
    ELSE IF ResponseStatus(error) >= 500
    THEN CreateErrorResponse("API_UNAVAILABLE",
            "FPL API is currently unavailable. Please try again later.",
            [t |-> "obj", status |-> ResponseStatus(error)])
    ELSE IF HasCode(error, "ENOTFOUND") \/ HasCode(error, "ECONNREFUSED")
    THEN CreateErrorResponse("NETWORK_ERROR",
            "Unable to connect to FPL API. Please check your internet connection.",
            [t |-> "obj", code |-> error.code])
    ELSE IF HasCode(error, "ETIMEDOUT")
    THEN CreateErrorResponse("API_TIMEOUT",
            "FPL API request timed out. Please try again.",
            [t |-> "obj", code |-> error.code])
    ELSE CreateErrorResponse("API_INVALID_RESPONSE",
            "Received invalid response from FPL API.",
            [t |-> "obj", error |-> error.message])

\* handleApiError, lines 73-111: the classification rules, in order.
HandleApiError(error) ==
    IF ResponseStatus(error) = 429
    THEN CreateErrorResponse("API_RATE_LIMITED",
            "FPL API rate limit exceeded. Please try again later.",
            [t |-> "obj", status |-> ResponseStatus(error)])
    ELSE IF HasCode(error, "ENOTFOUND") \/ HasCode(error, "ECONNREFUSED")
    THEN CreateErrorResponse("NETWORK_ERROR",
            "Unable to connect to FPL API. Please check your internet connection.",
            [t |-> "obj", code |-> error.code])
    ELSE IF HasCode(error, "ETIMEDOUT")
    THEN CreateErrorResponse("API_TIMEOUT",
            "FPL API request timed out. Please try again.",
            [t |-> "obj", code |-> error.code])
    ELSE IF ResponseStatus(error) >= 500
    THEN CreateErrorResponse("API_UNAVAILABLE",
            "FPL API is currently unavailable. Please try again later.",
            [t |-> "obj", status |-> ResponseStatus(error)])
    ELSE CreateErrorResponse("API_INVALID_RESPONSE",
            "Received invalid response from FPL API.",
            [t |-> "obj", error |-> error.message])

\* handleUnexpectedError, lines 156-164: the details are given in
\* development only.
HandleUnexpectedError(error) ==
    CreateErrorResponse("INTERNAL_ERROR",
        "An unexpected error occurred. Please try again.",
        IF nodeEnv = "development"
        THEN [t |-> "obj", error |-> error.message, stack |-> error.name]
        ELSE Undefined)

\* The outcome of an operation or of a promise: a value or an exception.
NoResult == [kind |-> "none"]

Returned(v) == [kind |-> "return", value |-> v]

Thrown(e) == [kind |-> "throw", err |-> e]

\* A safeExecute that lets every exception but an FPLError escape.
SafeExecuteRethrow(op) ==
    IF op.kind = "return" THEN op
    ELSE IF op.err.name = "FPLError"
    THEN Returned(CreateErrorResponse(op.err.code, op.err.message, op.err.details))
    ELSE op

\* A safeExecute that reports every exception as an unexpected error.
SafeExecuteAllUnexpected(op) ==
    IF op.kind = "return" THEN op
    ELSE Returned(HandleUnexpectedError(op.err))

\* safeExecute, lines 183-197, applied to the outcome of the operation.
SafeExecute(op) ==
    IF op.kind = "return" THEN op
    ELSE IF op.err.name = "FPLError"
    THEN Returned(CreateErrorResponse(op.err.code, op.err.message, op.err.details))
    ELSE Returned(HandleUnexpectedError(op.err))

----------------------------------------------------------------------------
\* Strings.

UpperCase == <<"A", "B", "E", "H", "I", "L", "M", "R", "S", "V", "Z">>

LowerCase == <<"a", "b", "e", "h", "i", "l", "m", "r", "s", "v", "z">>

ToLowerCase(chars) ==
    [i \in 1..Len(chars) |->
        IF \E j \in 1..Len(UpperCase) : UpperCase[j] = chars[i]
        THEN LowerCase[CHOOSE j \in 1..Len(UpperCase) : UpperCase[j] = chars[i]]
        ELSE chars[i]]

\* Mutant of the normalisation: the query is matched untrimmed.
TrimNothing(chars) == chars

\* String.prototype.trim: without the leading and the trailing blanks.
Trim(chars) ==
    LET inked == {i \in 1..Len(chars) : chars[i] # " "}
    IN  IF inked = {} THEN <<>>
        ELSE SubSeq(chars, CHOOSE i \in inked : \A j \in inked : i <= j,
                           CHOOSE i \in inked : \A j \in inked : i >= j)

\* String.prototype.includes.
Includes(hay, needle) ==
    \E i \in 0..(Len(hay) - Len(needle)) : SubSeq(hay, i + 1, i + Len(needle)) = needle

\* property access on an object that may lack the property.
Prop(o, k) == IF k \in DOMAIN o THEN o[k] ELSE Undefined

\* The comparison that takes the id for the position after it.
StrictEqShifted(n, v) == v.t = "number" /\ ~v.frac /\ v.v = n + 1

\* n === v, n an integer of the upstream data and v any value.
StrictEq(n, v) == v.t = "number" /\ ~v.frac /\ v.v = n

\* v < n and v > n, n an integer; undefined compares as NaN: never.
Less(v, n) == v.t = "number" /\ v.v < n

Greater(v, n) == v.t = "number" /\ (v.v > n \/ (v.frac /\ v.v = n))

\* now_cost / 10: the cost in millions, kept as its numerator in tenths.
Tenths(n) == [t |-> "number", tenths |-> n]

----------------------------------------------------------------------------
\* Input validation: the zod schemas of tool-schemas.ts.

Issue(path, code) == [t |-> "obj", path |-> path, code |-> code]

\* z.number().int().min(lo).max(hi): a value that is no number stops the
\* parse; a number runs every check.
NumberIssues(v, lo, hi, path) ==
    IF v.t # "number" THEN <<Issue(path, "invalid_type")>>
    ELSE (IF v.frac THEN <<Issue(path, "invalid_type")>> ELSE <<>>)
         \o (IF Less(v, lo) THEN <<Issue(path, "too_small")>> ELSE <<>>)
         \o (IF Greater(v, hi) THEN <<Issue(path, "too_big")>> ELSE <<>>)

\* z.string().min(lo).max(hi): the length is that of the string as given.
StringIssues(v, lo, hi, path) ==
    IF v.t # "string" THEN <<Issue(path, "invalid_type")>>
    ELSE (IF Len(v.chars) < lo THEN <<Issue(path, "too_small")>> ELSE <<>>)
         \o (IF Len(v.chars) > hi THEN <<Issue(path, "too_big")>> ELSE <<>>)

\* The result of safeParse.
Parsed(issues, data) ==
    IF Len(issues) = 0 THEN [success |-> TRUE, data |-> data]
    ELSE [success |-> FALSE, issues |-> Arr(issues)]

NotAnObject == Parsed(<<Issue(<<>>, "invalid_type")>>, Undefined)

MaxPlayerId == 1000

MaxGameweek == 38

MaxTeamId == 20

MaxQueryLength == 100

MinPlayers == 2

MaxPlayers == 10

MaxManagerId == 10000000

PlayerStatsInputSchema(args) ==
    IF args.t # "obj" THEN NotAnObject
    ELSE Parsed(NumberIssues(Prop(args, "playerId"), 1, MaxPlayerId, <<"playerId">>),
                [playerId |-> Prop(args, "playerId")])

TeamInfoInputSchema(args) ==
    IF args.t # "obj" THEN NotAnObject
    ELSE Parsed(NumberIssues(Prop(args, "teamId"), 1, MaxTeamId, <<"teamId">>),
                [teamId |-> Prop(args, "teamId")])

SearchPlayersInputSchema(args) ==
    IF args.t # "obj" THEN NotAnObject
    ELSE Parsed(StringIssues(Prop(args, "query"), 1, MaxQueryLength, <<"query">>),
                [query |-> Prop(args, "query")])

SearchTeamsInputSchema(args) ==
    IF args.t # "obj" THEN NotAnObject
    ELSE Parsed(StringIssues(Prop(args, "query"), 1, MaxQueryLength, <<"query">>),
                [query |-> Prop(args, "query")])

\* The playerIds schema without its refinement: duplicates pass.
PlayerIdsIssuesNoRefine(v) ==
    IF v.t # "array" THEN <<Issue(<<"playerIds">>, "invalid_type")>>
    ELSE LET n == Len(v.items)
             RECURSIVE items(_)
             items(i) == IF i > n THEN <<>>
                         ELSE NumberIssues(v.items[i], 1, MaxPlayerId, <<"playerIds", i>>)
                              \o items(i + 1)
         IN  (IF n < MinPlayers THEN <<Issue(<<"playerIds">>, "too_small")>> ELSE <<>>)
             \o (IF n > MaxPlayers THEN <<Issue(<<"playerIds">>, "too_big")>> ELSE <<>>)
             \o items(1)

\* z.array(id).min(2).max(10).refine(no duplicates): the refinement runs
\* unless an item is no number.
PlayerIdsIssues(v) ==
    IF v.t # "array" THEN <<Issue(<<"playerIds">>, "invalid_type")>>
    ELSE LET n == Len(v.items)
             RECURSIVE items(_)
             items(i) == IF i > n THEN <<>>
                         ELSE NumberIssues(v.items[i], 1, MaxPlayerId, <<"playerIds", i>>)
                              \o items(i + 1)
             aborted == \E i \in 1..n : v.items[i].t # "number"
         IN  (IF n < MinPlayers THEN <<Issue(<<"playerIds">>, "too_small")>> ELSE <<>>)
             \o (IF n > MaxPlayers THEN <<Issue(<<"playerIds">>, "too_big")>> ELSE <<>>)
             \o items(1)
             \o (IF ~aborted /\ Cardinality({v.items[i] : i \in 1..n}) # n
                 THEN <<Issue(<<"playerIds">>, "custom")>> ELSE <<>>)

ComparePlayersInputSchema(args) ==
    IF args.t # "obj" THEN NotAnObject
    ELSE Parsed(PlayerIdsIssues(Prop(args, "playerIds")),
                [playerIds |-> Prop(args, "playerIds")])

\* The schema of get_manager_team: managerId in 1..10,000,000 and an
\* optional gameweek in 1..38.
ManagerTeamInputSchema(args) ==
    IF args.t # "obj" THEN NotAnObject
    ELSE Parsed(NumberIssues(Prop(args, "managerId"), 1, MaxManagerId, <<"managerId">>)
                \o (IF Prop(args, "gameweek") = Undefined THEN <<>>
                    ELSE NumberIssues(Prop(args, "gameweek"), 1, MaxGameweek, <<"gameweek">>)),
                [managerId |-> Prop(args, "managerId"),
                 gameweek |-> Prop(args, "gameweek")])

----------------------------------------------------------------------------
\* Response envelopes.

\* The properties that hold undefined in some result; JSON.stringify
\* leaves such a property out.
OptionalKeys == {"details", "data", "next", "name", "homeScore", "awayScore",
                 "captain", "viceCaptain", "activeChip", "managerName"}

DropUndefined(o) ==
    [k \in DOMAIN o \ {j \in OptionalKeys \cap DOMAIN o : o[j] = Undefined} |-> o[k]]

\* JSON.stringify of an envelope, as the document a client parses back:
\* properties holding undefined are absent, in the envelope, in its data
\* and in the items of a data list.
JSONStringify(envelope) ==
    LET top == DropUndefined([k \in DOMAIN envelope \ {"t"} |-> envelope[k]])
    IN  IF "data" \notin DOMAIN top THEN top
        ELSE IF top.data.t = "obj" THEN [top EXCEPT !.data = DropUndefined(@)]
        ELSE IF top.data.t = "array"
        THEN [top EXCEPT !.data = Arr([i \in 1..Len(@.items) |-> DropUndefined(@.items[i])])]
        ELSE top

\* What a handler returns: one text item.
Content(text) == [content |-> <<[type |-> "text", text |-> text]>>]

\* The tail of every handler ("Handle the result"): an error response is
\* sent as it is, any other result inside {success: true, data}.
Respond(result) ==
    IF "error" \in DOMAIN result
    THEN Content(JSONStringify(result))
    ELSE Content(JSONStringify([success |-> TRUE, data |-> result]))

\* A handler awaits safeExecute and responds: an exception that escapes
\* safeExecute rejects the handler's promise.
Handle(op) ==
    LET result == SafeExecute(op)
    IN  IF result.kind = "throw" THEN result ELSE Returned(Respond(result.value))

\* A handler's early return on invalid arguments.
Reject(message, issues) ==
    Returned(Content(JSONStringify(HandleValidationError(message, issues))))

\* executeToolWithErrorHandling, index.ts lines 151-183.
ExecuteToolWithErrorHandling(handled) ==
    IF handled.kind = "return" THEN handled.value
    ELSE Content(JSONStringify(HandleUnexpectedError(handled.err)))

----------------------------------------------------------------------------
\* Mutants of the freshness test: the comparison reversed, and the bound
\* made inclusive.
IsFreshReversed(c, lf, now) == Truthy(c) /\ (now - lf) > CACHE_TTL

IsFreshInclusive(c, lf, now) == Truthy(c) /\ (now - lf) <= CACHE_TTL

\* BootstrapCache.getBootstrapData, line 46: the freshness test.
IsFresh(c, lf, now) == Truthy(c) /\ (now - lf) < CACHE_TTL

\* Mutant of the presence check: only the response itself is tested.
FailsCheckDataOnly(data) == ~Truthy(data)

\* Line 53: the presence check of the response.
FailsCheck(data) ==
    \/ ~Truthy(data)
    \/ ~Truthy(data.elements)
    \/ ~Truthy(data.teams)
    \/ ~Truthy(data.element_types)

\* Mutant of the store: the new players are appended to the cached ones.
MergeSnapshot(old, data) ==
    IF Truthy(old) /\ old.elements.t = "array" /\ data.elements.t = "array"
    THEN [data EXCEPT !.elements = Arr(old.elements.items \o data.elements.items)]
    ELSE data

\* Line 61: the snapshot that replaces the cached one.
StoreSnapshot(old, data) == data

\* Mutant of the timestamp: the time the response arrived.
StampOfArrival(now, arrival) == arrival

\* Mutant of the timestamp: backdated by one TTL.
StampOfBackdated(now, arrival) == now - CACHE_TTL

\* Line 62: the timestamp stored with it, the time read at line 44.
StampOf(now, arrival) == now

NotStored == [t |-> "none"]

Stored(c, lf) == [t |-> "stored", cache |-> c, lastFetch |-> lf]

\* One invocation of getBootstrapData.  Besides its position (pc), the time
\* it read (now), the fetches it issued, the response it got and its result,
\* the record keeps what the properties need of its history:
\*   startCache, startLastFetch  the cache's fields when it started;
\*   stored      the cache's fields right after its own write;
\*   after       the invocations that had settled when it started;
\*   cleanAfter  those of them since whose settling nothing wrote the cache;
\*   sameEpoch   the invocations started before it with no clearCache between;
\*   overlap     the invocations whose fetch was in flight when it issued its own;
\*   cleared     clearCache ran after it started;
\*   written     the cache was written (a store, a clearCache) after it settled;
\*   firstAfterClear  it is the first invocation started after a clearCache;
\*   preClearHit it was served, without a fetch, a snapshot whose fetch was
\*               issued before the latest clearCache.
IdleCall ==
    [pc |-> "idle", now |-> 0, startCache |-> Null, startLastFetch |-> 0,
     fetches |-> 0, resp |-> NoResponse, result |-> NoResult,
     stored |-> NotStored, after |-> {}, cleanAfter |-> {}, sameEpoch |-> {},
     overlap |-> {}, cleared |-> FALSE, written |-> FALSE,
     firstAfterClear |-> FALSE, preClearHit |-> FALSE]

\* Mutant of the failure paths: a failed refresh drops the snapshot.
OnResponseDropOnFailure(c, lf, now, arrival, r) ==
    IF r.t = "throw"
    THEN [result |-> Thrown(r.err), cache |-> Null, lastFetch |-> 0, wrote |-> FALSE]
    ELSE IF FailsCheck(r.data)
    THEN [result |-> Thrown(FPLError("NO_DATA_AVAILABLE",
                                     "Failed to fetch bootstrap data from FPL API",
                                     [t |-> "obj"])),
          cache |-> Null, lastFetch |-> 0, wrote |-> FALSE]
    ELSE [result |-> Returned(r.data), cache |-> StoreSnapshot(c, r.data),
          lastFetch |-> StampOf(now, arrival), wrote |-> TRUE]

\* getBootstrapData, lines 51-64, on the answer r of the fetch: a thrown
\* error leaves the function at line 51; a response that fails the check
\* raises NO_DATA_AVAILABLE; any other response is stored and returned.
OnResponse(c, lf, now, arrival, r) ==
    IF r.t = "throw"
    THEN [result |-> Thrown(r.err), cache |-> c, lastFetch |-> lf, wrote |-> FALSE]
    ELSE IF FailsCheck(r.data)
    THEN [result |-> Thrown(FPLError("NO_DATA_AVAILABLE",
                                     "Failed to fetch bootstrap data from FPL API",
                                     [t |-> "obj"])),
          cache |-> c, lastFetch |-> lf, wrote |-> FALSE]
    ELSE [result |-> Returned(r.data), cache |-> StoreSnapshot(c, r.data),
          lastFetch |-> StampOf(now, arrival), wrote |-> TRUE]

\* getBootstrapData run from its call to its return.
GetBootstrapData(c, lf, now, r) ==
    IF IsFresh(c, lf, now)
    THEN [result |-> Returned(c), cache |-> c, lastFetch |-> lf,
          wrote |-> FALSE, fetches |-> 0, touched |-> TRUE]
    ELSE LET o == OnResponse(c, lf, now, now, r)
         IN  [result |-> o.result, cache |-> o.cache, lastFetch |-> o.lastFetch,
              wrote |-> o.wrote, fetches |-> 1, touched |-> TRUE]

\* Mutant of the direct fetch: the handler empties the cache on its way.
NoCacheCleared ==
    [touched |-> TRUE, fetches |-> 0, result |-> NoResult,
     cache |-> Null, lastFetch |-> 0, wrote |-> FALSE]

\* A handler that does not come to use the cache.
NoCache == [touched |-> FALSE, fetches |-> 0, result |-> NoResult]

\* The slice that keeps one item too many.
SliceOneMore(items, n) == SubSeq(items, 1, IF Len(items) < n + 1 THEN Len(items) ELSE n + 1)

\* The first n items.
Slice(items, n) == SubSeq(items, 1, IF Len(items) < n THEN Len(items) ELSE n)

ResultLimit == 10

\* team?.name || 'Unknown' and its like.
OrElse(v, default) == IF Truthy(v) THEN v ELSE default

\* The search result of a player, lines 88-101 and 118-129.
PlayerSearchResult(player, data) ==
    LET team == Find(SelectSeq(data.teams.items, LAMBDA tm : tm.id = player.team))
        position == Find(SelectSeq(data.element_types.items,
                         LAMBDA et : et.id = player.element_type))
    IN  [t |-> "obj", id |-> player.id, name |-> player.web_name,
         fullName |-> <<player.first_name, " ", player.second_name>>,
         team |-> OrElse(Prop(team, "name"), Lit("Unknown")),
         teamId |-> player.team,
         position |-> IF Truthy(position) THEN position.singular_name ELSE "Unknown",
         cost |-> Tenths(player.now_cost)]

\* The filter of searchPlayers, lines 75-87.
PlayerMatches(player, query) ==
    LET webName == ToLowerCase(player.web_name.chars)
        firstName == ToLowerCase(player.first_name.chars)
        secondName == ToLowerCase(player.second_name.chars)
        fullName == firstName \o <<" ">> \o secondName
    IN  \/ Includes(webName, query)
        \/ Includes(fullName, query)
        \/ Includes(firstName, query)
        \/ Includes(secondName, query)

\* searchPlayers, lines 72-104, on the data getBootstrapData returned.
\* A collection that is no array has no filter and no find, a name that
\* is no string has no toLowerCase: a TypeError.
SearchPlayers(query, data) ==
    LET normalizedQuery == Trim(ToLowerCase(query.chars))
    IN  IF ~IsArray(data.elements) THEN Thrown(TypeError)
        ELSE IF \E i \in 1..Len(data.elements.items) :
                    \E k \in {"web_name", "first_name", "second_name"} :
                        data.elements.items[i][k].t # "string"
        THEN Thrown(TypeError)
        ELSE LET matches == SelectSeq(data.elements.items,
                                      LAMBDA p : PlayerMatches(p, normalizedQuery))
             IN  IF Len(matches) > 0 /\ ~(IsArray(data.teams) /\ IsArray(data.element_types))
                 THEN Thrown(TypeError)
                 ELSE Returned(Slice([i \in 1..Len(matches) |->
                                        PlayerSearchResult(matches[i], data)],
                                     ResultLimit))

\* getPlayerById, lines 112-129.
GetPlayerById(playerId, data) ==
    IF ~IsArray(data.elements) THEN Thrown(TypeError)
    ELSE LET player == Find(SelectSeq(data.elements.items, LAMBDA p : p.id = playerId))
         IN  IF ~Truthy(player) THEN Returned(Null)
             ELSE IF ~(IsArray(data.teams) /\ IsArray(data.element_types))
             THEN Thrown(TypeError)
             ELSE Returned(PlayerSearchResult(player, data))

TeamSearchResult(team) ==
    [t |-> "obj", id |-> team.id, name |-> team.name,
     shortName |-> team.short_name, code |-> team.code]

\* searchTeams, lines 137-153.
SearchTeams(query, data) ==
    LET normalizedQuery == Trim(ToLowerCase(query.chars))
    IN  IF ~IsArray(data.teams) THEN Thrown(TypeError)
        ELSE IF \E i \in 1..Len(data.teams.items) :
                    \E k \in {"name", "short_name"} : data.teams.items[i][k].t # "string"
        THEN Thrown(TypeError)
        ELSE LET matches == SelectSeq(data.teams.items,
                    LAMBDA tm : \/ Includes(ToLowerCase(tm.name.chars), normalizedQuery)
                                \/ Includes(ToLowerCase(tm.short_name.chars), normalizedQuery))
             IN  Returned([i \in 1..Len(matches) |-> TeamSearchResult(matches[i])])

\* getTeamById, lines 161-172.
GetTeamById(teamId, data) ==
    IF ~IsArray(data.teams) THEN Thrown(TypeError)
    ELSE LET team == Find(SelectSeq(data.teams.items, LAMBDA tm : tm.id = teamId))
         IN  IF ~Truthy(team) THEN Returned(Null) ELSE Returned(TeamSearchResult(team))

----------------------------------------------------------------------------
\* The tool handlers.  A handler is run on its arguments and on the answers
\* the upstream gives to the calls it makes; its run is the outcome of its
\* promise, the upstream calls it issued, in order, the error an upstream
\* call threw to it, and its use of the bootstrap cache.

NoFailure == [name |-> "none"]

Failed(r) == IF r.t = "throw" THEN r.err ELSE NoFailure

Run(out, up, failure, g) == [out |-> out, up |-> up, failure |-> failure, g |-> g]

\* The presence check that takes an empty list of players for none.
LacksPlayers(data) ==
    \/ ~Truthy(data)
    \/ ~Truthy(data.elements)
    \/ (IsArray(data.elements) /\ Len(data.elements.items) = 0)
    \/ ~Truthy(data.teams)
    \/ ~Truthy(data.element_types)

\* The presence check of the handlers that fetch the bootstrap data
\* themselves (player-stats.ts line 44, compare-players.ts line 57,
\* team-info.ts line 44).
LacksPlayerData(data) ==
    \/ ~Truthy(data)
    \/ ~Truthy(data.elements)
    \/ ~Truthy(data.teams)
    \/ ~Truthy(data.element_types)

\* The PlayerStats of a player (player-stats.ts lines 67-83): the fields
\* of the upstream player that the model carries.
PlayerStatsOf(player, teamName, elementTypes) ==
    LET elementType == Find(SelectSeq(elementTypes.items, LAMBDA et : et.id = player.element_type))
    IN  [t |-> "obj", id |-> player.id, name |-> player.web_name,
         position |-> IF Truthy(elementType) THEN elementType.singular_name
                      ELSE "Unknown Position",
         team |-> teamName, totalPoints |-> player.total_points,
         cost |-> Tenths(player.now_cost)]

TeamNameOf(player, teams) ==
    LET team == Find(SelectSeq(teams.items, LAMBDA tm : tm.id = player.team))
    IN  IF Truthy(team) THEN team.name ELSE Lit("Unknown Team")

\* player-stats.ts, lines 37-86: the operation given to safeExecute.
PlayerStatsOperation(playerId, rb) ==
    IF rb.t = "throw" THEN Thrown(rb.err)
    ELSE IF LacksPlayerData(rb.data)
    THEN Thrown(JsError("No player data available from FPL API"))
    ELSE IF ~IsArray(rb.data.elements) THEN Thrown(TypeError)
    ELSE LET player == Find(SelectSeq(rb.data.elements.items, LAMBDA el : StrictEq(el.id, playerId)))
         IN  IF ~Truthy(player)
             THEN Thrown(FPLError("PLAYER_NOT_FOUND", "Player not found.",
                                  [t |-> "obj", playerId |-> playerId]))
             ELSE IF ~(IsArray(rb.data.teams) /\ IsArray(rb.data.element_types))
             THEN Thrown(TypeError)
             ELSE Returned(PlayerStatsOf(player, TeamNameOf(player, rb.data.teams),
                                         rb.data.element_types))

\* getPlayerStatsTool, player-stats.ts lines 17-111.
GetPlayerStatsTool(args, rb) ==
    LET validationResult == PlayerStatsInputSchema(args)
    IN  IF ~validationResult.success
        THEN Run(Reject("Invalid player ID provided", validationResult.issues),
                 <<>>, NoFailure, NoCache)
        ELSE Run(Handle(PlayerStatsOperation(validationResult.data.playerId, rb)),
                 <<"getBootstrapData">>, Failed(rb), NoCache)

\* The comparison that fails as soon as one id is not found.
ComparePlayersOperationAllOrNothing(playerIds, rb) ==
    IF rb.t = "throw" THEN Thrown(rb.err)
    ELSE IF LacksPlayerData(rb.data)
    THEN Thrown(JsError("No player data available from FPL API"))
    ELSE IF Len(playerIds.items) > 0 /\ ~IsArray(rb.data.elements) THEN Thrown(TypeError)
    ELSE LET playerOf(id) == Find(SelectSeq(rb.data.elements.items, LAMBDA el : StrictEq(el.id, id)))
             found == SelectSeq(playerIds.items, LAMBDA id : Truthy(playerOf(id)))
             invalidPlayerIds == SelectSeq(playerIds.items, LAMBDA id : ~Truthy(playerOf(id)))
         IN  IF Len(found) > 0 /\ ~(IsArray(rb.data.teams) /\ IsArray(rb.data.element_types))
             THEN Thrown(TypeError)
             ELSE IF Len(invalidPlayerIds) > 0
             THEN Thrown(FPLError("PLAYER_NOT_FOUND",
                                  "None of the provided player IDs were found.",
                                  [t |-> "obj", invalidPlayerIds |-> Arr(invalidPlayerIds)]))
             ELSE Returned(
                [t |-> "obj",
                 validPlayers |-> Arr([i \in 1..Len(found) |->
                     PlayerStatsOf(playerOf(found[i]),
                                   TeamNameOf(playerOf(found[i]), rb.data.teams),
                                   rb.data.element_types)]),
                 invalidPlayerIds |-> Arr(invalidPlayerIds),
                 comparison |-> [t |-> "obj",
                                 totalPlayers |-> Len(playerIds.items),
                                 validPlayers |-> Len(found),
                                 invalidPlayers |-> Len(invalidPlayerIds)]])

\* compare-players.ts, lines 50-121: the ids are looked up in order; the
\* found become validPlayers, the others invalidPlayerIds.
ComparePlayersOperation(playerIds, rb) ==
    IF rb.t = "throw" THEN Thrown(rb.err)
    ELSE IF LacksPlayerData(rb.data)
    THEN Thrown(JsError("No player data available from FPL API"))
    ELSE IF Len(playerIds.items) > 0 /\ ~IsArray(rb.data.elements) THEN Thrown(TypeError)
    ELSE LET playerOf(id) == Find(SelectSeq(rb.data.elements.items, LAMBDA el : StrictEq(el.id, id)))
             found == SelectSeq(playerIds.items, LAMBDA id : Truthy(playerOf(id)))
             invalidPlayerIds == SelectSeq(playerIds.items, LAMBDA id : ~Truthy(playerOf(id)))
         IN  IF Len(found) > 0 /\ ~(IsArray(rb.data.teams) /\ IsArray(rb.data.element_types))
             THEN Thrown(TypeError)
             ELSE IF Len(found) = 0
             THEN Thrown(FPLError("PLAYER_NOT_FOUND",
                                  "None of the provided player IDs were found.",
                                  [t |-> "obj", invalidPlayerIds |-> Arr(invalidPlayerIds)]))
             ELSE Returned(
                [t |-> "obj",
                 validPlayers |-> Arr([i \in 1..Len(found) |->
                     PlayerStatsOf(playerOf(found[i]),
                                   TeamNameOf(playerOf(found[i]), rb.data.teams),
                                   rb.data.element_types)]),
                 invalidPlayerIds |-> Arr(invalidPlayerIds),
                 comparison |-> [t |-> "obj",
                                 totalPlayers |-> Len(playerIds.items),
                                 validPlayers |-> Len(found),
                                 invalidPlayers |-> Len(invalidPlayerIds)]])

\* comparePlayersTool, compare-players.ts lines 30-146.
ComparePlayersTool(args, rb) ==
    LET validationResult == ComparePlayersInputSchema(args)
    IN  IF ~validationResult.success
        THEN Run(Reject("Invalid player IDs provided for comparison",
                        validationResult.issues),
                 <<>>, NoFailure, NoCache)
        ELSE Run(Handle(ComparePlayersOperation(validationResult.data.playerIds, rb)),
                 <<"getBootstrapData">>, Failed(rb), NoCache)

\* team-info.ts, lines 37-96.
TeamInfoOperation(teamId, rb) ==
    IF rb.t = "throw" THEN Thrown(rb.err)
    ELSE IF LacksPlayerData(rb.data)
    THEN Thrown(JsError("No team data available from FPL API"))
    ELSE IF ~IsArray(rb.data.teams) THEN Thrown(TypeError)
    ELSE LET team == Find(SelectSeq(rb.data.teams.items, LAMBDA tm : StrictEq(tm.id, teamId)))
         IN  IF ~Truthy(team)
             THEN Thrown(FPLError("TEAM_NOT_FOUND", "Team not found.",
                                  [t |-> "obj", teamId |-> teamId]))
             ELSE IF ~IsArray(rb.data.elements) THEN Thrown(TypeError)
             ELSE LET teamPlayers == SelectSeq(rb.data.elements.items,
                                               LAMBDA el : StrictEq(el.team, teamId))
                  IN  IF Len(teamPlayers) > 0 /\ ~IsArray(rb.data.element_types)
                      THEN Thrown(TypeError)
                      ELSE Returned(
                        [t |-> "obj", id |-> team.id, name |-> team.name,
                         shortName |-> team.short_name, code |-> team.code,
                         players |-> Arr([i \in 1..Len(teamPlayers) |->
                             PlayerStatsOf(teamPlayers[i], team.name,
                                           rb.data.element_types)])])

\* getTeamInfoTool, team-info.ts lines 17-121.
GetTeamInfoTool(args, rb) ==
    LET validationResult == TeamInfoInputSchema(args)
    IN  IF ~validationResult.success
        THEN Run(Reject("Invalid team ID provided", validationResult.issues),
                 <<>>, NoFailure, NoCache)
        ELSE Run(Handle(TeamInfoOperation(validationResult.data.teamId, rb)),
                 <<"getBootstrapData">>, Failed(rb), NoCache)

\* The operation that lets the next gameweek keep its own finished flag.
CurrentGameweekOperationOwnFlag(rb) ==
    IF rb.t = "throw" THEN Thrown(rb.err)
    ELSE IF \/ ~Truthy(rb.data)
            \/ ~Truthy(rb.data.events)
            \/ (IsArray(rb.data.events) /\ Len(rb.data.events.items) = 0)
    THEN Thrown(JsError("No gameweek data available from FPL API"))
    ELSE IF ~IsArray(rb.data.events) THEN Thrown(TypeError)
    ELSE LET currentGameweek == Find(SelectSeq(rb.data.events.items, LAMBDA ev : ev.is_current))
             nextGameweek == Find(SelectSeq(rb.data.events.items, LAMBDA ev : ev.is_next))
         IN  IF ~Truthy(currentGameweek)
             THEN IF ~Truthy(nextGameweek)
                  THEN Thrown(JsError("Unable to determine current or next gameweek"))
                  ELSE Returned([t |-> "obj", current |-> nextGameweek.id,
                                 deadline |-> nextGameweek.deadline_time,
                                 finished |-> nextGameweek.finished, next |-> Undefined])
             ELSE Returned([t |-> "obj", current |-> currentGameweek.id,
                            deadline |-> currentGameweek.deadline_time,
                            finished |-> currentGameweek.finished,
                            next |-> IF Truthy(nextGameweek) THEN Num(nextGameweek.id)
                                     ELSE Undefined])

\* gameweek.ts, lines 17-62.
CurrentGameweekOperation(rb) ==
    IF rb.t = "throw" THEN Thrown(rb.err)
    ELSE IF \/ ~Truthy(rb.data)
            \/ ~Truthy(rb.data.events)
            \/ (IsArray(rb.data.events) /\ Len(rb.data.events.items) = 0)
    THEN Thrown(JsError("No gameweek data available from FPL API"))
    ELSE IF ~IsArray(rb.data.events) THEN Thrown(TypeError)
    ELSE LET currentGameweek == Find(SelectSeq(rb.data.events.items, LAMBDA ev : ev.is_current))
             nextGameweek == Find(SelectSeq(rb.data.events.items, LAMBDA ev : ev.is_next))
         IN  IF ~Truthy(currentGameweek)
             THEN IF ~Truthy(nextGameweek)
                  THEN Thrown(JsError("Unable to determine current or next gameweek"))
                  ELSE Returned([t |-> "obj", current |-> nextGameweek.id,
                                 deadline |-> nextGameweek.deadline_time,
                                 finished |-> FALSE, next |-> Undefined])
             ELSE Returned([t |-> "obj", current |-> currentGameweek.id,
                            deadline |-> currentGameweek.deadline_time,
                            finished |-> currentGameweek.finished,
                            next |-> IF Truthy(nextGameweek) THEN Num(nextGameweek.id)
                                     ELSE Undefined])

\* getCurrentGameweekTool, gameweek.ts lines 16-87: the arguments are not
\* looked at.
GetCurrentGameweekTool(args, rb) ==
    Run(Handle(CurrentGameweekOperation(rb)), <<"getBootstrapData">>, Failed(rb), NoCache)

\* teamMap.get(id), fixtures.ts lines 118-122: a later team of the same
\* id replaces an earlier one.
TeamMapGet(teams, id) ==
    LET hits == {i \in 1..Len(teams.items) : teams.items[i].id = id}
    IN  IF hits = {} THEN Undefined
        ELSE teams.items[CHOOSE i \in hits : \A j \in hits : i >= j].name

TBD == Lit("TBD")

\* v ?? undefined.
OrUndefined(v) == IF v.t \in {"null", "undefined"} THEN Undefined ELSE v

\* fixtures.ts, lines 155-164.
TransformFixture(fixture, teams) ==
    [t |-> "obj", id |-> fixture.id, gameweek |-> fixture.event,
     homeTeam |-> TeamMapGet(teams, fixture.team_h),
     awayTeam |-> TeamMapGet(teams, fixture.team_a),
     kickoffTime |-> OrElse(fixture.kickoff_time, TBD),
     homeScore |-> OrUndefined(fixture.team_h_score),
     awayScore |-> OrUndefined(fixture.team_a_score),
     finished |-> fixture.finished]

\* The comparator that puts a fixture without a kickoff time first.
CompareKickoffTBDFirst(a, b) ==
    IF a.kickoffTime = TBD /\ b.kickoffTime = TBD THEN 0
    ELSE IF a.kickoffTime = TBD THEN -1
    ELSE IF b.kickoffTime = TBD THEN 1
    ELSE a.kickoffTime.at - b.kickoffTime.at

\* The comparator of the sort, fixtures.ts lines 168-173.
CompareKickoff(a, b) ==
    IF a.kickoffTime = TBD /\ b.kickoffTime = TBD THEN 0
    ELSE IF a.kickoffTime = TBD THEN 1
    ELSE IF b.kickoffTime = TBD THEN -1
    ELSE a.kickoffTime.at - b.kickoffTime.at

\* Array.prototype.sort is stable: each item goes after the items before
\* it that the comparator does not put after it.
RECURSIVE SortFixtures(_)
SortFixtures(fs) ==
    IF Len(fs) <= 1 THEN fs
    ELSE LET sorted == SortFixtures(SubSeq(fs, 1, Len(fs) - 1))
             x == fs[Len(fs)]
             n == Cardinality({i \in 1..Len(sorted) : CompareKickoff(sorted[i], x) <= 0})
         IN  SubSeq(sorted, 1, n) \o <<x>> \o SubSeq(sorted, n + 1, Len(sorted))

\* fixtures.ts, lines 104-176, after both upstream calls have answered.
FixturesOperation(gameweek, rb, rf) ==
    IF rf.t = "throw" THEN Thrown(rf.err)
    ELSE IF ~Truthy(rf.data) \/ ~IsArray(rf.data)
    THEN Thrown(JsError("Unable to retrieve fixtures data from FPL API"))
    ELSE LET gameweekFixtures == SelectSeq(rf.data.items,
                                           LAMBDA fx : StrictEq(fx.event, gameweek))
             transformed == [i \in 1..Len(gameweekFixtures) |->
                                TransformFixture(gameweekFixtures[i], rb.data.teams)]
         IN  IF Len(gameweekFixtures) = 0
             THEN IF Less(gameweek, 1) \/ Greater(gameweek, MaxGameweek)
                  THEN Thrown(JsError("Invalid gameweek number. Must be between 1 and 38."))
                  ELSE Returned(Arr(<<>>))
             ELSE IF \E i \in 1..Len(transformed) :
                        ~Truthy(transformed[i].homeTeam) \/ ~Truthy(transformed[i].awayTeam)
             THEN Thrown(JsError("Unable to find team names for fixture"))
             ELSE Returned(Arr(SortFixtures(transformed)))

\* getGameweekFixturesTool, fixtures.ts lines 16-114: the arguments are
\* not validated; the bootstrap data are fetched, then the fixtures, and
\* the gameweek is looked at last.
GetGameweekFixturesTool(args, rb, rf) ==
    IF args.t \in {"null", "undefined"}
    THEN Run(Handle(Thrown(TypeError)), <<>>, NoFailure, NoCache)
    ELSE IF rb.t = "throw"
    THEN Run(Handle(Thrown(rb.err)), <<"getBootstrapData">>, rb.err, NoCache)
    ELSE IF ~Truthy(rb.data) \/ ~Truthy(rb.data.teams)
    THEN Run(Handle(Thrown(JsError("Unable to retrieve team data from FPL API"))),
             <<"getBootstrapData">>, NoFailure, NoCache)
    ELSE IF ~IsArray(rb.data.teams)
    THEN Run(Handle(Thrown(TypeError)), <<"getBootstrapData">>, NoFailure, NoCache)
    ELSE Run(Handle(FixturesOperation(Prop(args, "gameweek"), rb, rf)),
             <<"getBootstrapData", "getFixtures">>, Failed(rf), NoCache)

\* A message that quotes the query.
Message(text, query) == [t |-> "string", text |-> text, query |-> query]

\* The search that reports an empty result as a player not found.
SearchPlayersOperationNotFound(query, g) ==
    IF g.result.kind = "throw" THEN g.result
    ELSE LET players == SearchPlayers(query, g.result.value)
         IN  IF players.kind = "throw" THEN players
             ELSE IF Len(players.value) = 0
             THEN Thrown(FPLError("PLAYER_NOT_FOUND", "No players found.",
                                  [t |-> "obj", query |-> query]))
             ELSE Returned([t |-> "obj", message |-> Message("Found players matching", query),
                            results |-> Arr(players.value)])

\* search-players.ts, lines 36-50: searchPlayers through the cache.
SearchPlayersOperation(query, g) ==
    IF g.result.kind = "throw" THEN g.result
    ELSE LET players == SearchPlayers(query, g.result.value)
         IN  IF players.kind = "throw" THEN players
             ELSE IF Len(players.value) = 0
             THEN Returned([t |-> "obj", message |-> Message("No players found matching", query),
                            results |-> Arr(<<>>)])
             ELSE Returned([t |-> "obj", message |-> Message("Found players matching", query),
                            results |-> Arr(players.value)])

\* The upstream calls and the failure of a use of the cache.
CacheCalls(g) == IF g.fetches = 1 THEN <<"getBootstrapData">> ELSE <<>>

CacheFailure(g, r) == IF g.fetches = 1 THEN Failed(r) ELSE NoFailure

\* searchPlayersTool, search-players.ts lines 16-75.
SearchPlayersTool(args, c, lf, now, r) ==
    LET validationResult == SearchPlayersInputSchema(args)
        g == GetBootstrapData(c, lf, now, r)
    IN  IF ~validationResult.success
        THEN Run(Reject("Invalid search query provided", validationResult.issues),
                 <<>>, NoFailure, NoCache)
        ELSE Run(Handle(SearchPlayersOperation(validationResult.data.query, g)),
                 CacheCalls(g), CacheFailure(g, r), g)

\* compare-players.ts, lines 182-196: searchTeams through the cache.
SearchTeamsOperation(query, g) ==
    IF g.result.kind = "throw" THEN g.result
    ELSE LET teams == SearchTeams(query, g.result.value)
         IN  IF teams.kind = "throw" THEN teams
             ELSE IF Len(teams.value) = 0
             THEN Returned([t |-> "obj", message |-> Message("No teams found matching", query),
                            results |-> Arr(<<>>)])
             ELSE Returned([t |-> "obj", message |-> Message("Found teams matching", query),
                            results |-> Arr(teams.value)])

\* searchTeamsTool, compare-players.ts lines 162-221.
SearchTeamsTool(args, c, lf, now, r) ==
    LET validationResult == SearchTeamsInputSchema(args)
        g == GetBootstrapData(c, lf, now, r)
    IN  IF ~validationResult.success
        THEN Run(Reject("Invalid search query provided", validationResult.issues),
                 <<>>, NoFailure, NoCache)
        ELSE Run(Handle(SearchTeamsOperation(validationResult.data.query, g)),
                 CacheCalls(g), CacheFailure(g, r), g)

\* manager-team tool, lines 70-86: the details of a pick.
ManagerTeamPlayer(pick, data) ==
    LET player == Find(SelectSeq(data.elements.items, LAMBDA p : p.id = pick.element))
        team == Find(SelectSeq(data.teams.items,
                     LAMBDA tm : Truthy(player) /\ tm.id = player.team))
        position == Find(SelectSeq(data.element_types.items,
                         LAMBDA et : et.id = pick.element_type))
    IN  [t |-> "obj", id |-> pick.element,
         name |-> OrElse(Prop(player, "web_name"), Lit("Unknown")),
         position |-> IF Truthy(position) THEN position.singular_name ELSE "Unknown",
         team |-> OrElse(Prop(team, "short_name"), Lit("Unknown")),
         cost |-> IF Truthy(player) THEN Tenths(player.now_cost) ELSE Num(0),
         isCaptain |-> pick.is_captain, isViceCaptain |-> pick.is_vice_captain,
         multiplier |-> pick.multiplier, positionInTeam |-> pick.position]

\* calculateFormation, lines 152-168: defenders-midfielders-forwards.
CalculateFormation(startingXI) ==
    LET count(position) ==
            Cardinality({i \in 1..Len(startingXI) : startingXI[i].position = position})
    IN  <<count("Defender"), "-", count("Midfielder"), "-", count("Forward")>>

\* The team whose formation counts the bench too.
ManagerTeamOfWholeSquad(managerId, manager, targetGameweek, picks, data) ==
    IF ~(IsArray(data.elements) /\ IsArray(data.teams) /\ IsArray(data.element_types))
    THEN Thrown(TypeError)
    ELSE LET playerDetails == [i \in 1..Len(picks.picks.items) |->
                                  ManagerTeamPlayer(picks.picks.items[i], data)]
             startingXI == SelectSeq(playerDetails,
                                     LAMBDA p : p.positionInTeam <= StartingSlots)
             bench == SelectSeq(playerDetails, LAMBDA p : p.positionInTeam > StartingSlots)
         IN  IF ~Truthy(picks.entry_history) THEN Thrown(TypeError)
             ELSE Returned(
                [t |-> "obj", managerId |-> managerId, managerName |-> manager.name,
                 gameweek |-> targetGameweek,
                 points |-> picks.entry_history.points,
                 totalPoints |-> picks.entry_history.total_points,
                 overallRank |-> picks.entry_history.overall_rank,
                 gameweekRank |-> picks.entry_history.rank,
                 teamValue |-> Tenths(picks.entry_history.value),
                 bank |-> Tenths(picks.entry_history.bank),
                 activeChip |-> picks.active_chip,
                 startingXI |-> Arr(startingXI), bench |-> Arr(bench),
                 captain |-> Find(SelectSeq(playerDetails, LAMBDA p : p.isCaptain)),
                 viceCaptain |-> Find(SelectSeq(playerDetails, LAMBDA p : p.isViceCaptain)),
                 formation |-> CalculateFormation(playerDetails)])

\* manager-team tool, lines 66-121: from the bootstrap data to the team.
ManagerTeamOf(managerId, manager, targetGameweek, picks, data) ==
    IF ~(IsArray(data.elements) /\ IsArray(data.teams) /\ IsArray(data.element_types))
    THEN Thrown(TypeError)
    ELSE LET playerDetails == [i \in 1..Len(picks.picks.items) |->
                                  ManagerTeamPlayer(picks.picks.items[i], data)]
             startingXI == SelectSeq(playerDetails,
                                     LAMBDA p : p.positionInTeam <= StartingSlots)
             bench == SelectSeq(playerDetails, LAMBDA p : p.positionInTeam > StartingSlots)
         IN  IF ~Truthy(picks.entry_history) THEN Thrown(TypeError)
             ELSE Returned(
                [t |-> "obj", managerId |-> managerId, managerName |-> manager.name,
                 gameweek |-> targetGameweek,
                 points |-> picks.entry_history.points,
                 totalPoints |-> picks.entry_history.total_points,
                 overallRank |-> picks.entry_history.overall_rank,
                 gameweekRank |-> picks.entry_history.rank,
                 teamValue |-> Tenths(picks.entry_history.value),
                 bank |-> Tenths(picks.entry_history.bank),
                 activeChip |-> picks.active_chip,
                 startingXI |-> Arr(startingXI), bench |-> Arr(bench),
                 captain |-> Find(SelectSeq(playerDetails, LAMBDA p : p.isCaptain)),
                 viceCaptain |-> Find(SelectSeq(playerDetails, LAMBDA p : p.isViceCaptain)),
                 formation |-> CalculateFormation(startingXI)])

\* getManagerTeamTool, lines 18-147: the manager, then the picks, then the
\* bootstrap data through the cache.
GetManagerTeamTool(args, rm, rp, c, lf, now, r) ==
    LET validationResult == ManagerTeamInputSchema(args)
        managerId == validationResult.data.managerId
        targetGameweek == IF Truthy(validationResult.data.gameweek)
                          THEN validationResult.data.gameweek
                          ELSE Num(rm.data.current_event)
        g == GetBootstrapData(c, lf, now, r)
    IN  IF ~validationResult.success
        THEN Run(Reject("Invalid manager team request", validationResult.issues),
                 <<>>, NoFailure, NoCache)
        ELSE IF rm.t = "throw"
        THEN Run(Handle(Thrown(rm.err)), <<"getManager">>, rm.err, NoCache)
        ELSE IF ~Truthy(rm.data)
        THEN Run(Handle(Returned(CreateErrorResponse("PLAYER_NOT_FOUND",
                    "Manager not found.", [t |-> "obj", managerId |-> managerId]))),
                 <<"getManager">>, NoFailure, NoCache)
        ELSE IF rp.t = "throw"
        THEN Run(Handle(Thrown(rp.err)),
                 <<"getManager", "getManagerGameweekPicks">>, rp.err, NoCache)
        ELSE IF \/ ~Truthy(rp.data)
                \/ ~Truthy(rp.data.picks)
                \/ Len(rp.data.picks.items) = 0
        THEN Run(Handle(Returned(CreateErrorResponse("NO_DATA_AVAILABLE",
                    "No team data available for manager in gameweek.",
                    [t |-> "obj", managerId |-> managerId,
                     gameweek |-> targetGameweek]))),
                 <<"getManager", "getManagerGameweekPicks">>, NoFailure, NoCache)
        ELSE Run(Handle(IF g.result.kind = "throw" THEN g.result
                        ELSE ManagerTeamOf(managerId, rm.data, targetGameweek,
                                           rp.data, g.result.value)),
                 <<"getManager", "getManagerGameweekPicks">> \o CacheCalls(g),
                 CacheFailure(g, r), g)

----------------------------------------------------------------------------
\* The process: FPLMCPServer's isShuttingDown flag, the exit timers set so
\* far (each by the exit code its callback passes to process.exit), whether
\* the process still runs or has exited, and, for the properties, the
\* shutdown triggers seen so far.

\* Number of shutdown triggers in one behaviour.
MaxTriggers == 3

\* index.ts line 41: a started server is not shutting down.
ServerStarted ==
    [isShuttingDown |-> FALSE, timers |-> <<>>, exit |-> [t |-> "running"],
     seen |-> <<>>]

\* Mutant of shutdown: no test of the flag, every trigger sets a timer.
ShutdownReentrant(s, exitCode) ==
    [s EXCEPT !.isShuttingDown = TRUE, !.timers = Append(@, exitCode)]

\* Mutant of shutdown: a later trigger replaces the exit code of the timer.
ShutdownLastCode(s, exitCode) ==
    [s EXCEPT !.isShuttingDown = TRUE, !.timers = <<exitCode>>]

\* FPLMCPServer.shutdown, index.ts lines 240-254: return if a shutdown is
\* in progress; else raise the flag and set the timer whose callback exits
\* with exitCode.
Shutdown(s, exitCode) ==
    IF s.isShuttingDown THEN s
    ELSE [s EXCEPT !.isShuttingDown = TRUE, !.timers = Append(@, exitCode)]

\* No tool has been invoked yet.
NoInvocation == [tool |-> "none"]

----------------------------------------------------------------------------
Init ==
    /\ clock = StartTime
    /\ cache = Null
    /\ lastFetch = 0
    /\ calls = [c \in Calls |-> IdleCall]
    /\ clearPending = FALSE
    /\ cacheOld = FALSE
    /\ server = ServerStarted
    /\ nodeEnv = "production"
    /\ last = NoInvocation

\* Time passes.
Advance ==
    /\ clock < StartTime + MaxTicks * Tick
    /\ clock' = clock + Tick
    /\ UNCHANGED <<cache, lastFetch, calls, clearPending, cacheOld, nodeEnv, last, server>>

\* getBootstrapData, lines 44-51: read the time, return the cached snapshot
\* if it is fresh, else issue the upstream fetch and wait for its answer.
\* (Invocations take the lowest free slot: the slots are interchangeable.)
BeginGet(c) ==
    /\ calls[c].pc = "idle"
    /\ \A d \in Calls : d < c => calls[d].pc # "idle"
    /\ LET hit == IsFresh(cache, lastFetch, clock)
           settled == {d \in Calls : calls[d].pc = "done"}
           started == [calls[c] EXCEPT
                !.now = clock,
                !.startCache = cache,
                !.startLastFetch = lastFetch,
                !.after = settled,
                !.cleanAfter = {d \in settled : ~calls[d].written},
                !.sameEpoch = {d \in Calls : calls[d].pc # "idle" /\ ~calls[d].cleared},
                !.firstAfterClear = clearPending]
       IN  calls' = [calls EXCEPT ![c] =
                IF hit
                THEN [started EXCEPT !.pc = "done",
                                     !.result = Returned(cache),
                                     !.preClearHit = cacheOld]
                ELSE [started EXCEPT !.pc = "fetching",
                                     !.fetches = 1,
                                     !.overlap = {d \in Calls : calls[d].pc = "fetching"}]]
    /\ clearPending' = FALSE
    /\ UNCHANGED <<clock, cache, lastFetch, cacheOld, nodeEnv, last, server>>

\* getBootstrapData, lines 51-64: the fetch of invocation c is answered by r.
CompleteGet(c, r) ==
    /\ calls[c].pc = "fetching"
    /\ LET o == OnResponse(cache, lastFetch, calls[c].now, clock, r)
       IN  /\ cache' = o.cache
           /\ lastFetch' = o.lastFetch
           /\ cacheOld' = IF o.wrote THEN calls[c].cleared ELSE cacheOld
           /\ calls' = [d \in Calls |->
                IF d = c
                THEN [calls[c] EXCEPT
                        !.pc = "done", !.resp = r, !.result = o.result,
                        !.stored = IF o.wrote THEN Stored(o.cache, o.lastFetch)
                                   ELSE NotStored]
                ELSE IF o.wrote /\ calls[d].pc = "done"
                THEN [calls[d] EXCEPT !.written = TRUE]
                ELSE calls[d]]
    /\ UNCHANGED <<clock, clearPending, nodeEnv, last, server>>

\* BootstrapCache.clearCache, lines 178-181.
ClearCache ==
    /\ cache' = Null
    /\ lastFetch' = 0
    /\ clearPending' = TRUE
    /\ cacheOld' = FALSE
    /\ calls' = [d \in Calls |->
            IF calls[d].pc = "idle" THEN calls[d]
            ELSE [calls[d] EXCEPT !.cleared = TRUE,
                                  !.written = (calls[d].pc = "done")]]
    /\ UNCHANGED <<clock, nodeEnv, last, server>>

\* The caller drops a settled invocation; its slot is free again.
Forget(c) ==
    /\ calls[c].pc = "done"
    /\ calls' = [d \in Calls |->
            IF d = c THEN IdleCall
            ELSE [calls[d] EXCEPT !.after = @ \ {c},
                                  !.cleanAfter = @ \ {c},
                                  !.sameEpoch = @ \ {c},
                                  !.overlap = @ \ {c}]]
    /\ UNCHANGED <<clock, cache, lastFetch, clearPending, cacheOld, nodeEnv, last, server>>

NextCache ==
    \/ Advance
    \/ \E c \in Calls : BeginGet(c)
    \/ \E c \in Calls : \E r \in CacheResponses : CompleteGet(c, r)
    \/ ClearCache
    \/ \E c \in Calls : Forget(c)

SpecCache == Init /\ [][NextCache]_vars

\* The answers of the upstream to the calls a handler issued, for the
\* handlers that go through the cache or issue several calls: an answer
\* that no call came to ask for is not part of the run.  For a handler of
\* one upstream call, the answer is what the upstream holds at the time
\* of the invocation, asked for or not.
Consumed(answers, up) ==
    [call \in DOMAIN answers |->
        IF \E i \in 1..Len(up) : up[i] = call THEN answers[call] ELSE NoResponse]

\* A tool is invoked and runs to its response: the dispatcher passes the
\* arguments to the handler and answers what executeToolWithErrorHandling
\* makes of the handler's promise.  Requests are served one at a time.
\* The record keeps the answers of the upstream beside the run.
Invoke(tool, args, answers, run) ==
    /\ last = NoInvocation
    /\ last' = [tool |-> tool, args |-> args, answers |-> answers, up |-> run.up,
                failure |-> run.failure, handler |-> run.out,
                response |-> ExecuteToolWithErrorHandling(run.out),
                fetches |-> run.g.fetches, boot |-> run.g.result,
                touched |-> run.g.touched]
    /\ cache' = IF run.g.touched THEN run.g.cache ELSE cache
    /\ lastFetch' = IF run.g.touched THEN run.g.lastFetch ELSE lastFetch
    /\ clearPending' = (clearPending /\ ~run.g.touched)
    /\ cacheOld' = (cacheOld /\ ~(run.g.touched /\ run.g.wrote))
    /\ UNCHANGED <<clock, calls, nodeEnv, server>>

SearchArgs ==
    { [t |-> "obj", query |-> q] : q \in
        { Str(<<"s", "a">>), Str(<<"S", "A", "L">>), Str(<<" ", "a", "r", "s", " ">>),
          Str(<<"z", "z">>), Str(<<" ">>), Str(<<>>),
          Str([i \in 1..(MaxQueryLength + 1) |-> "a"]), Num(7) } }
    \cup { [t |-> "obj"], Undefined }

Ids == { Num(1), Num(2), Num(3), Num(0), Num(MaxTeamId + 1), Num(MaxPlayerId),
         Num(MaxPlayerId + 1), Half(1), Str(<<"1">>) }

PlayerStatsArgs ==
    { [t |-> "obj", playerId |-> v] : v \in Ids } \cup { [t |-> "obj"], Undefined }

TeamInfoArgs ==
    { [t |-> "obj", teamId |-> v] : v \in Ids } \cup { [t |-> "obj"], Undefined }

ComparePlayersArgs ==
    { [t |-> "obj", playerIds |-> Arr(ids)] :
        ids \in { <<Num(1), Num(2)>>, <<Num(2), Num(99999)>>, <<Num(2), Num(999)>>,
                  <<Num(998), Num(3), Num(999), Num(1)>>, <<Num(998), Num(999)>>,
                  <<Num(10), Num(10)>>, <<Num(1)>>, <<>>, <<Num(1), Str(<<"2">>)>>,
                  [i \in 1..(MaxPlayers + 1) |-> Num(i)] } }
    \cup { [t |-> "obj", playerIds |-> Num(1)], [t |-> "obj"], Undefined }

GameweekArgs ==
    { [t |-> "obj", gameweek |-> v] :
        v \in { Num(1), Num(2), Num(3), Num(MaxGameweek), Num(MaxGameweek + 1),
                Num(0), Num(-1), Half(1), Half(MaxGameweek) } }
    \cup { [t |-> "obj"], Undefined }

ManagerArgs ==
    { [t |-> "obj", managerId |-> Num(5)],
      [t |-> "obj", managerId |-> Num(5), gameweek |-> Num(3)],
      [t |-> "obj", managerId |-> Num(MaxManagerId), gameweek |-> Num(MaxGameweek)],
      [t |-> "obj", managerId |-> Num(5), gameweek |-> Num(MaxGameweek + 1)],
      [t |-> "obj", managerId |-> Num(MaxManagerId + 1)],
      [t |-> "obj", managerId |-> Num(0)],
      [t |-> "obj", gameweek |-> Num(3)], Undefined }

InvokeSearchPlayers ==
    \E args \in SearchArgs, r \in CachedBootstrapResponses :
        LET run == SearchPlayersTool(args, cache, lastFetch, clock, r)
        IN  Invoke("search_players", args, Consumed([getBootstrapData |-> r], run.up), run)

InvokeSearchTeams ==
    \E args \in SearchArgs, r \in CachedBootstrapResponses :
        LET run == SearchTeamsTool(args, cache, lastFetch, clock, r)
        IN  Invoke("search_teams", args, Consumed([getBootstrapData |-> r], run.up), run)

InvokeGetCurrentGameweek ==
    \E args \in {[t |-> "obj"], Undefined}, rb \in EventsResponses :
        Invoke("get_current_gameweek", args, [getBootstrapData |-> rb],
               GetCurrentGameweekTool(args, rb))

InvokeGetPlayerStats ==
    \E args \in PlayerStatsArgs, rb \in BootstrapResponses :
        Invoke("get_player_stats", args, [getBootstrapData |-> rb],
               GetPlayerStatsTool(args, rb))

InvokeGetGameweekFixtures ==
    \E args \in GameweekArgs, rb \in BootstrapResponses, rf \in FixturesResponses :
        LET run == GetGameweekFixturesTool(args, rb, rf)
        IN  Invoke("get_gameweek_fixtures", args,
                   Consumed([getBootstrapData |-> rb, getFixtures |-> rf], run.up), run)

InvokeComparePlayers ==
    \E args \in ComparePlayersArgs, rb \in BootstrapResponses :
        Invoke("compare_players", args, [getBootstrapData |-> rb],
               ComparePlayersTool(args, rb))

InvokeGetTeamInfo ==
    \E args \in TeamInfoArgs, rb \in BootstrapResponses :
        Invoke("get_team_info", args, [getBootstrapData |-> rb],
               GetTeamInfoTool(args, rb))

InvokeGetManagerTeam ==
    \E args \in ManagerArgs, rm \in ManagerResponses, rp \in PicksResponses,
       r \in CachedBootstrapResponses :
        LET run == GetManagerTeamTool(args, rm, rp, cache, lastFetch, clock, r)
        IN  Invoke("get_manager_team", args,
                   Consumed([getManager |-> rm, getManagerGameweekPicks |-> rp,
                             getBootstrapData |-> r], run.up), run)

\* The response is sent to the client; the next request can be served.
Reply ==
    /\ last # NoInvocation
    /\ last' = NoInvocation
    /\ UNCHANGED <<clock, cache, lastFetch, calls, clearPending, cacheOld, nodeEnv, server>>

\* The server starts in production or in development.
InitTools ==
    /\ clock = StartTime
    /\ cache = Null
    /\ lastFetch = 0
    /\ calls = [c \in Calls |-> IdleCall]
    /\ clearPending = FALSE
    /\ cacheOld = FALSE
    /\ server = ServerStarted
    /\ nodeEnv \in {"production", "development"}
    /\ last = NoInvocation

NextTools ==
    \/ Advance
    \/ ClearCache
    \/ InvokeSearchPlayers
    \/ InvokeSearchTeams
    \/ InvokeGetCurrentGameweek
    \/ InvokeGetPlayerStats
    \/ InvokeGetGameweekFixtures
    \/ InvokeComparePlayers
    \/ InvokeGetTeamInfo
    \/ InvokeGetManagerTeam
    \/ Reply

SpecTools == InitTools /\ [][NextTools]_vars

----------------------------------------------------------------------------
\* Properties of the bootstrap cache (checked under SpecCache).

----------------------------------------------------------------------------
\* The lookups of the bootstrap cache, called directly.

CrowdSize == 15

\* A snapshot with more matches for "sa" than a search returns: of every
\* five players in a row, one matches by the display name, one by the first
\* name, one by the last name, one by a display name in capitals, and one
\* not at all.
Crowd ==
    [SnapA EXCEPT !.elements = Arr([i \in 1..CrowdSize |->
        CASE i % 5 = 1 -> Player(100 + i, Str(<<"S", "a", "m">>), Str(<<"J", "o">>),
                                 Str(<<"N", "g">>), 1, 2, 50, i)
          [] i % 5 = 2 -> Player(100 + i, Str(<<"K", "a", "i">>), Str(<<"S", "a">>),
                                 Str(<<"N", "g">>), 2, 3, 50, i)
          [] i % 5 = 3 -> Player(100 + i, Str(<<"K", "a", "i">>), Str(<<"J", "o">>),
                                 Str(<<"I", "s", "a">>), 1, 4, 50, i)
          [] i % 5 = 4 -> Player(100 + i, Str(<<"S", "A", "M">>), Str(<<"J", "o">>),
                                 Str(<<"N", "g">>), 2, 1, 50, i)
          [] OTHER -> Player(100 + i, Str(<<"Z", "e", "d">>), Str(<<"A", "l">>),
                             Str(<<"Z", "e", "d">>), 1, 2, 50, i)])]

\* A method of the bootstrap cache is called and runs to its result: it
\* awaits getBootstrapData and works on the data it returned.
Call(method, args, answer, g, result) ==
    /\ last = NoInvocation
    /\ last' = [tool |-> method, args |-> args,
                answers |-> Consumed([getBootstrapData |-> answer], CacheCalls(g)),
                boot |-> g.result, result |-> result, fetches |-> g.fetches]
    /\ cache' = g.cache
    /\ lastFetch' = g.lastFetch
    /\ clearPending' = FALSE
    /\ cacheOld' = (cacheOld /\ ~g.wrote)
    /\ UNCHANGED <<clock, calls, nodeEnv, server>>

CallGetPlayerById ==
    \E playerId \in {1, 2, 3, 101, 999, MaxPlayerId},
       r \in CachedBootstrapResponses \cup {Resolves(Crowd)} :
        LET g == GetBootstrapData(cache, lastFetch, clock, r)
        IN  Call("getPlayerById", Num(playerId), r, g,
                 IF g.result.kind = "throw" THEN g.result
                 ELSE GetPlayerById(playerId, g.result.value))

CallSearchPlayers ==
    \E query \in { Str(<<"s", "a">>), Str(<<"S", "A", "L">>), Str(<<" ", "s", "a", " ">>),
                   Str(<<"u", " ", "s">>), Str(<<"z", "z">>), Str(<<" ">>) },
       r \in CachedBootstrapResponses \cup {Resolves(Crowd)} :
        LET g == GetBootstrapData(cache, lastFetch, clock, r)
        IN  Call("searchPlayers", query, r, g,
                 IF g.result.kind = "throw" THEN g.result
                 ELSE SearchPlayers(query, g.result.value))

NextLookup ==
    \/ Advance
    \/ ClearCache
    \/ CallGetPlayerById
    \/ CallSearchPlayers
    \/ InvokeGetPlayerStats
    \/ InvokeSearchPlayers
    \/ InvokeSearchTeams
    \/ Reply

SpecLookup == InitTools /\ [][NextLookup]_vars

----------------------------------------------------------------------------
\* handleApiError, applied to an error of every HTTP status and error code.

\* An error is at hand: it carries a response of some status or none (0),
\* and an error code or none ("").
InitClassify ==
    /\ clock = StartTime
    /\ cache = Null
    /\ lastFetch = 0
    /\ calls = [c \in Calls |-> IdleCall]
    /\ clearPending = FALSE
    /\ cacheOld = FALSE
    /\ server = ServerStarted
    /\ nodeEnv = "production"
    /\ \E status \in {0, 200, 404, 429, 499, 500, 503, 599},
          code \in {"", "ENOTFOUND", "ECONNREFUSED", "ETIMEDOUT", "ECONNRESET",
                    "EPIPE", "ERR_BAD_REQUEST"} :
           last = [tool |-> "handleApiError", status |-> status, code |-> code,
                   error |-> UpstreamError(status, code), result |-> NoResult]

\* handleApiError is applied to the error.
Classify ==
    /\ last.tool = "handleApiError"
    /\ last.result = NoResult
    /\ last' = [last EXCEPT !.result = Returned(HandleApiError(last.error))]
    /\ UNCHANGED <<clock, cache, lastFetch, calls, clearPending, cacheOld, nodeEnv, server>>

SpecClassify == InitClassify /\ [][Classify]_vars

----------------------------------------------------------------------------
\* safeExecute, applied to an operation of every outcome.

\* An operation is at hand: it throws an FPLError of one of the 14 codes,
\* with or without details, or another exception, or it returns.
InitSafeExecute ==
    /\ clock = StartTime
    /\ cache = Null
    /\ lastFetch = 0
    /\ calls = [c \in Calls |-> IdleCall]
    /\ clearPending = FALSE
    /\ cacheOld = FALSE
    /\ server = ServerStarted
    /\ nodeEnv \in {"production", "development"}
    /\ \E op \in { Thrown(FPLError(code, message, details)) :
                      code \in ErrorCodes,
                      message \in {"Player not found.", "No data."},
                      details \in {Undefined, [t |-> "obj", playerId |-> Num(7)]} }
                 \cup { Thrown(JsError("No player data available from FPL API")),
                        Thrown(TypeError), Thrown(UpstreamError(503, "")),
                        Returned([t |-> "obj", results |-> Arr(<<>>)]) } :
           last = [tool |-> "safeExecute", op |-> op, result |-> NoResult]

\* safeExecute awaits the operation.
Execute ==
    /\ last.tool = "safeExecute"
    /\ last.result = NoResult
    /\ last' = [last EXCEPT !.result = SafeExecute(last.op)]
    /\ UNCHANGED <<clock, cache, lastFetch, calls, clearPending, cacheOld, nodeEnv, server>>

SpecSafeExecute == InitSafeExecute /\ [][Execute]_vars

----------------------------------------------------------------------------
\* The server as the client sees it: a request names a tool, and the
\* dispatcher passes it to the handler registered under that name.

\* A request names get_manager_team, which setupToolHandlers registers no
\* handler for: the dispatcher has nothing to pass it to.
CallUnregisteredTool ==
    /\ last = NoInvocation
    /\ \E args \in ManagerArgs :
           last' = [tool |-> "get_manager_team", args |-> args, registered |-> FALSE]
    /\ UNCHANGED <<clock, cache, lastFetch, calls, clearPending, cacheOld, nodeEnv, server>>

NextDispatch ==
    \/ InvokeSearchPlayers
    \/ InvokeSearchTeams
    \/ InvokeGetCurrentGameweek
    \/ InvokeGetPlayerStats
    \/ InvokeGetGameweekFixtures
    \/ InvokeComparePlayers
    \/ InvokeGetTeamInfo
    \/ CallUnregisteredTool
    \/ Reply

SpecDispatch == InitTools /\ [][NextDispatch]_vars

----------------------------------------------------------------------------
\* The shutdown of the process.

\* setupErrorHandling, index.ts lines 188-214: an uncaught exception and an
\* unhandled rejection shut down with code 1, SIGINT and SIGTERM with
\* code 0.  (The handlers' logging is taken to return.)
Trigger(signal) ==
    /\ server.exit.t = "running"
    /\ Len(server.seen) < MaxTriggers
    /\ server' = [Shutdown(server, IF signal \in {"SIGINT", "SIGTERM"} THEN 0 ELSE 1)
                    EXCEPT !.seen = Append(@, signal)]
    /\ UNCHANGED <<clock, cache, lastFetch, calls, clearPending, cacheOld, nodeEnv, last>>

\* index.ts lines 250-253: the delay of a timer has passed and its callback
\* runs process.exit.  Timers of one delay fire in the order they were set.
ExitTimerFires ==
    /\ server.exit.t = "running"
    /\ server.timers # <<>>
    /\ server' = [server EXCEPT !.exit = [t |-> "exited", code |-> Head(server.timers)]]
    /\ UNCHANGED <<clock, cache, lastFetch, calls, clearPending, cacheOld, nodeEnv, last>>

NextShutdown ==
    \/ \E signal \in {"uncaughtException", "unhandledRejection", "SIGINT", "SIGTERM"} :
           Trigger(signal)
    \/ ExitTimerFires

\* A timer that is due fires: the event loop runs as long as the process.
SpecShutdown == Init /\ [][NextShutdown]_vars /\ WF_vars(ExitTimerFires)

Started(c) == calls[c].pc # "idle"

Settled(c) == calls[c].pc = "done"

ReturnedData(c) == Settled(c) /\ calls[c].result.kind = "return"

\* The two invocations read their start times less than one TTL apart.
SameWindow(c, d) ==
    /\ calls[c].now - calls[d].now < CACHE_TTL
    /\ calls[d].now - calls[c].now < CACHE_TTL

\* C1 as stated: any two getBootstrapData calls within one TTL window, both
\* succeeding and with no clearCache between them, issue at most one upstream
\* fetch between them, whatever their interleaving.
C1_AtMostOneFetchAnyInterleaving ==
    \A c \in Calls : \A d \in calls[c].sameEpoch :
        (ReturnedData(c) /\ ReturnedData(d) /\ SameWindow(c, d))
            => calls[c].fetches + calls[d].fetches <= 1

\* C1 as amended: two getBootstrapData calls within one TTL window issue at
\* most one upstream fetch between them when the second starts after the
\* first has returned its data and nothing (no clearCache, no other call's
\* store) has written the cache in between.
C1_AtMostOneFetchSequential ==
    \A c \in Calls : \A d \in calls[c].cleanAfter :
        (Started(c) /\ ReturnedData(d) /\ SameWindow(c, d))
            => calls[c].fetches + calls[d].fetches <= 1

\* C1's case: a call that fetched and stored, followed within the window by
\* a call that was served from the cache.
C1_Witness ==
    \E c \in Calls : \E d \in calls[c].cleanAfter :
        /\ ReturnedData(c) /\ ReturnedData(d) /\ SameWindow(c, d)
        /\ calls[d].fetches = 1
        /\ calls[c].fetches = 0
        /\ calls[c].now > calls[d].now

\* The call started on an empty cache or on a snapshot aged CACHE_TTL or more.
StartedStale(c) ==
    \/ calls[c].startCache = Null
    \/ calls[c].now - calls[c].startLastFetch >= CACHE_TTL

\* C2: a getBootstrapData call that starts when the cache is empty or the
\* snapshot's age is at least CACHE_TTL issues exactly one upstream fetch,
\* and when it succeeds the cache right after its write is exactly the
\* snapshot it fetched, with nothing of the old snapshot retained.
C2_StaleCallFetchesOnceAndReplaces ==
    \A c \in Calls :
        (Started(c) /\ StartedStale(c)) =>
            /\ calls[c].fetches = 1
            /\ ReturnedData(c) =>
                /\ calls[c].stored # NotStored
                /\ calls[c].stored.cache = calls[c].resp.data
                /\ calls[c].result.value = calls[c].resp.data

\* C2's case: a refresh of an expired snapshot by a different one.
C2_Witness ==
    \E c \in Calls :
        /\ ReturnedData(c)
        /\ calls[c].startCache # Null
        /\ calls[c].now - calls[c].startLastFetch >= CACHE_TTL
        /\ calls[c].fetches = 1
        /\ calls[c].resp.data # calls[c].startCache
        /\ cache = calls[c].resp.data

\* C3: getBootstrapData returns data without an upstream call only if a
\* snapshot is cached and now - lastFetch < CACHE_TTL (strict); the data is
\* then the cached snapshot.  This holds also after a failed refresh.
C3_ServedWithoutFetchOnlyWhileFresh ==
    \A c \in Calls :
        (Settled(c) /\ calls[c].fetches = 0) =>
            /\ calls[c].startCache # Null
            /\ calls[c].now - calls[c].startLastFetch < CACHE_TTL
            /\ calls[c].result = Returned(calls[c].startCache)

\* C3's case: a call served from the cache at a positive age, after another
\* call's fetch has failed.
C3_Witness ==
    \E c \in Calls : \E d \in calls[c].after :
        /\ Settled(c) /\ calls[c].fetches = 0
        /\ calls[c].now > calls[c].startLastFetch
        /\ calls[d].result.kind = "throw"

\* C4 as stated: the first getBootstrapData call that starts after
\* clearCache has returned performs an upstream fetch and does not return
\* data whose fetch was issued before the invalidation, in every interleaving.
C4_NextCallAfterClearRefetches ==
    \A c \in Calls :
        (Started(c) /\ calls[c].firstAfterClear) =>
            /\ calls[c].fetches = 1
            /\ ~calls[c].preClearHit

\* A collection that is missing or empty.
MissingOrEmpty(v) == ~Truthy(v) \/ (v.t = "array" /\ Len(v.items) = 0)

\* A response that is absent or lacks a non-empty elements, teams or
\* element_types collection.
Incomplete(data) ==
    \/ ~Truthy(data)
    \/ MissingOrEmpty(data.elements)
    \/ MissingOrEmpty(data.teams)
    \/ MissingOrEmpty(data.element_types)

\* C5 as stated: if the upstream response is absent, or one of its three
\* collections is missing or empty, getBootstrapData fails with
\* NO_DATA_AVAILABLE and the response is neither stored nor returned.
C5_IncompleteResponseRejected ==
    \A c \in Calls :
        (Settled(c) /\ calls[c].resp.t = "resolve" /\ Incomplete(calls[c].resp.data)) =>
            /\ calls[c].result.kind = "throw"
            /\ calls[c].result.err.name = "FPLError"
            /\ calls[c].result.err.code = "NO_DATA_AVAILABLE"
            /\ calls[c].stored = NotStored

\* C7 as stated: two calls that both pass the staleness check before either
\* fetch completes each issue their own fetch and return the snapshot they
\* fetched, and each write leaves the same snapshot in the cache, so the
\* result does not depend on which write lands last.
C7_RaceOrderIndependent ==
    \A c \in Calls : \A d \in calls[c].overlap :
        (ReturnedData(c) /\ ReturnedData(d)) =>
            /\ calls[c].fetches = 1 /\ calls[d].fetches = 1
            /\ calls[c].result.value = calls[c].resp.data
            /\ calls[d].result.value = calls[d].resp.data
            /\ calls[c].stored.cache = calls[d].stored.cache

\* C7 as amended: the two racing calls each issue their own fetch and return
\* the snapshot they fetched; each write leaves exactly that call's snapshot
\* in the cache, stamped with that call's start time, so that afterwards the
\* cache holds, in full, the snapshot of the write that landed last.
C7_RaceLastWriteWins ==
    \A c \in Calls : \A d \in calls[c].overlap :
        (ReturnedData(c) /\ ReturnedData(d)) =>
            /\ calls[c].fetches = 1 /\ calls[d].fetches = 1
            /\ \A e \in {c, d} :
                /\ calls[e].result.value = calls[e].resp.data
                /\ calls[e].stored = Stored(calls[e].resp.data, calls[e].now)
                /\ ~calls[e].written => (cache = calls[e].resp.data
                                         /\ lastFetch = calls[e].now)
            /\ calls[c].written \/ calls[d].written

\* C7's case: two racing calls that fetched different snapshots at
\* different start times; the one that started first wrote last.
C7_Witness ==
    \E c \in Calls : \E d \in calls[c].overlap :
        /\ ReturnedData(c) /\ ReturnedData(d)
        /\ calls[c].resp.data # calls[d].resp.data
        /\ calls[c].now > calls[d].now
        /\ ~calls[d].written
        /\ cache = calls[d].resp.data

----------------------------------------------------------------------------
\* The tool layer.

Invoked == last # NoInvocation

\* The text of the response a handler resolved with.
Answered == Invoked /\ last.handler.kind = "return"

HandlerText == last.handler.value.content[1].text

IsSuccessEnvelope(doc) == DOMAIN doc = {"success", "data"} /\ doc.success = TRUE

IsErrorEnvelope(doc) ==
    /\ {"error", "message", "code"} \subseteq DOMAIN doc
    /\ DOMAIN doc \subseteq {"error", "message", "code", "details"}
    /\ doc.error = TRUE
    /\ doc.code \in ErrorCodes

\* The handler answered an error envelope of this code.
AnsweredError(code) ==
    Answered /\ IsErrorEnvelope(HandlerText) /\ HandlerText.code = code

\* The last invocation went through the bootstrap cache, whose upstream
\* fetch threw.
CacheFetchFailed ==
    /\ Invoked
    /\ last.tool \in {"search_players", "search_teams", "get_manager_team"}
    /\ last.touched
    /\ last.fetches = 1
    /\ last.failure # NoFailure

\* C6: when the upstream fetch inside getBootstrapData throws,
\* getBootstrapData fails with an FPLError of code NO_DATA_AVAILABLE,
\* search_players, search_teams and get_manager_team answer an error
\* envelope of code NO_DATA_AVAILABLE, and the fetch was issued once.
C6_FetchFailureIsNoDataAvailable ==
    CacheFetchFailed =>
        /\ last.boot.kind = "throw"
        /\ last.boot.err.name = "FPLError"
        /\ last.boot.err.code = "NO_DATA_AVAILABLE"
        /\ AnsweredError("NO_DATA_AVAILABLE")
        /\ Cardinality({i \in 1..Len(last.up) : last.up[i] = "getBootstrapData"}) = 1

\* C8: whatever the tool, the arguments and the upstream answers (an
\* exception, null, a malformed response), the handler's promise resolves
\* with one text item that is a success envelope or an error envelope.
C8_HandlerAlwaysAnswersAnEnvelope ==
    Invoked =>
        /\ last.handler.kind = "return"
        /\ Len(last.handler.value.content) = 1
        /\ (IsSuccessEnvelope(HandlerText) \/ IsErrorEnvelope(HandlerText))

\* An upstream call threw, or answered null or a malformed collection,
\* and the handler answered the envelope of an internal error.
C8_Witness ==
    /\ Invoked
    /\ last.tool = "get_team_info"
    /\ last.up = <<"getBootstrapData">>
    /\ last.failure = NoFailure
    /\ AnsweredError("INTERNAL_ERROR")

\* C9: when an upstream call of a handler throws, the error envelope
\* carries the code the classification rules of handleApiError give the
\* error.
C9_UpstreamFailureIsClassified ==
    (Invoked /\ last.failure # NoFailure) =>
        AnsweredError(HandleApiError(last.failure).code)

\* An integer gameweek outside 1..38 was given to get_gameweek_fixtures.
GameweekOutOfRange ==
    /\ Invoked
    /\ last.tool = "get_gameweek_fixtures"
    /\ last.args.t = "obj"
    /\ "gameweek" \in DOMAIN last.args
    /\ last.args.gameweek.t = "number"
    /\ ~last.args.gameweek.frac
    /\ (last.args.gameweek.v < 1 \/ last.args.gameweek.v > MaxGameweek)

\* C10: get_gameweek_fixtures with a gameweek outside 1..38 (39, say)
\* answers an error envelope of code VALIDATION_ERROR and has issued no
\* upstream call.
C10_OutOfRangeGameweekRejectedBeforeFetch ==
    GameweekOutOfRange => AnsweredError("VALIDATION_ERROR") /\ last.up = <<>>

----------------------------------------------------------------------------
\* Input validation, seen from the caller.

\* An integer between lo and hi.
IsIntegerIn(v, lo, hi) == v.t = "number" /\ ~v.frac /\ v.v >= lo /\ v.v <= hi

\* A string of lo to hi characters.
IsStringOf(v, lo, hi) ==
    v.t = "string" /\ "chars" \in DOMAIN v /\ Len(v.chars) >= lo /\ Len(v.chars) <= hi

\* The tools whose handler validates its arguments.
ValidatingTools ==
    {"search_players", "search_teams", "get_player_stats", "compare_players",
     "get_team_info", "get_manager_team"}

\* The arguments have the shape the tool declares: a query of 1 to 100
\* characters; an integer player id in 1..1000; an integer team id in
\* 1..20; 2 to 10 distinct integer player ids in 1..1000; an integer
\* manager id in 1..10,000,000 with an optional integer gameweek in 1..38.
HasDeclaredShape(tool, args) ==
    /\ args.t = "obj"
    /\ CASE tool \in {"search_players", "search_teams"} ->
                /\ "query" \in DOMAIN args
                /\ IsStringOf(args.query, 1, 100)
         [] tool = "get_player_stats" ->
                /\ "playerId" \in DOMAIN args
                /\ IsIntegerIn(args.playerId, 1, 1000)
         [] tool = "get_team_info" ->
                /\ "teamId" \in DOMAIN args
                /\ IsIntegerIn(args.teamId, 1, 20)
         [] tool = "compare_players" ->
                /\ "playerIds" \in DOMAIN args
                /\ args.playerIds.t = "array"
                /\ Len(args.playerIds.items) >= 2
                /\ Len(args.playerIds.items) <= 10
                /\ \A i \in 1..Len(args.playerIds.items) :
                       /\ IsIntegerIn(args.playerIds.items[i], 1, 1000)
                       /\ \A j \in 1..Len(args.playerIds.items) :
                              i # j => args.playerIds.items[i] # args.playerIds.items[j]
         [] tool = "get_manager_team" ->
                /\ "managerId" \in DOMAIN args
                /\ IsIntegerIn(args.managerId, 1, 10000000)
                /\ ("gameweek" \in DOMAIN args => IsIntegerIn(args.gameweek, 1, 38))
         [] OTHER -> TRUE

\* A validating tool was invoked with arguments that violate its shape.
InvalidArguments ==
    /\ Invoked
    /\ last.tool \in ValidatingTools
    /\ ~HasDeclaredShape(last.tool, last.args)

\* C11: search_players, search_teams, get_player_stats, compare_players,
\* get_team_info and get_manager_team, given arguments that violate the
\* declared shape (a wrong type, a number out of range, a query shorter
\* than 1 or longer than 100 characters, fewer than 2 or more than 10
\* player ids, duplicate ids), answer an error envelope of code
\* VALIDATION_ERROR, having issued no upstream call and having neither
\* read nor written the bootstrap cache.
C11_InvalidArgumentsRejectedBeforeAnyCall ==
    InvalidArguments =>
        /\ AnsweredError("VALIDATION_ERROR")
        /\ last.up = <<>>
        /\ ~last.touched
        /\ last.fetches = 0

\* compare_players with the duplicate ids [10, 10] was rejected.
C11_Witness ==
    /\ InvalidArguments
    /\ last.tool = "compare_players"
    /\ last.args = [t |-> "obj", playerIds |-> Arr(<<Num(10), Num(10)>>)]
    /\ AnsweredError("VALIDATION_ERROR")
    /\ last.up = <<>>

----------------------------------------------------------------------------
\* Player lookups of the handlers that fetch the bootstrap data themselves.

\* The bootstrap data the upstream answered to the last invocation.
SnapshotData == last.answers.getBootstrapData.data

\* The upstream answered a snapshot whose players, teams and positions are
\* lists.
GotSnapshot ==
    /\ Invoked
    /\ last.answers.getBootstrapData.t = "resolve"
    /\ Truthy(SnapshotData)
    /\ IsArray(SnapshotData.elements)
    /\ IsArray(SnapshotData.teams)
    /\ IsArray(SnapshotData.element_types)

\* The players of the snapshot with this id, in the order of the snapshot.
PlayersWithId(id) == SelectSeq(SnapshotData.elements.items, LAMBDA el : el.id = id)

HoldsPlayer(id) == Len(PlayersWithId(id)) > 0

\* The list of player ids given to compare_players, when it is one of
\* integers.
RequestedIds == last.args.playerIds.items

ComparedIntegers ==
    /\ Invoked
    /\ last.tool = "compare_players"
    /\ last.args.t = "obj"
    /\ "playerIds" \in DOMAIN last.args
    /\ last.args.playerIds.t = "array"
    /\ \A i \in 1..Len(RequestedIds) :
           RequestedIds[i].t = "number" /\ ~RequestedIds[i].frac

\* compare_players was given two ids, the first of a player of the
\* snapshot and the second of none.
ComparedPresentWithAbsent ==
    /\ ComparedIntegers
    /\ GotSnapshot
    /\ Len(RequestedIds) = 2
    /\ HoldsPlayer(RequestedIds[1].v)
    /\ ~HoldsPlayer(RequestedIds[2].v)

\* The answer is a success whose validPlayers holds the data of the first
\* id alone and whose invalidPlayerIds holds the second id alone.
FirstIsValidSecondIsInvalid ==
    /\ Answered
    /\ IsSuccessEnvelope(HandlerText)
    /\ Len(HandlerText.data.validPlayers.items) = 1
    /\ LET stats == HandlerText.data.validPlayers.items[1]
           player == PlayersWithId(RequestedIds[1].v)[1]
       IN  /\ stats.id = RequestedIds[1].v
           /\ stats.name = player.web_name
           /\ stats.totalPoints = player.total_points
           /\ stats.cost = Tenths(player.now_cost)
    /\ HandlerText.data.invalidPlayerIds = Arr(<<RequestedIds[2]>>)

\* C12 as stated: compare_players with the ids [valid1, 99999], valid1 the
\* id of a player of the snapshot, answers a success envelope whose
\* validPlayers holds exactly the data of valid1 and whose invalidPlayerIds
\* is [99999].
C12_PartialFailureWith99999 ==
    (ComparedPresentWithAbsent /\ RequestedIds[2].v = 99999)
        => FirstIsValidSecondIsInvalid

\* C12 as amended: compare_players with the ids [valid1, absent], valid1
\* the id of a player of the snapshot and absent an id in 1..1000 of no
\* player of the snapshot, answers a success envelope whose validPlayers
\* holds exactly the data of valid1 and whose invalidPlayerIds is [absent].
C12_PartialFailureWithinRange ==
    (/\ ComparedPresentWithAbsent
     /\ IsIntegerIn(RequestedIds[1], 1, 1000)
     /\ IsIntegerIn(RequestedIds[2], 1, 1000))
        => FirstIsValidSecondIsInvalid

\* compare_players with [2, 999] on a snapshot that holds player 2 and no
\* player 999 answered the data of player 2 and invalidPlayerIds [999].
C12_Witness ==
    /\ ComparedPresentWithAbsent
    /\ RequestedIds = <<Num(2), Num(999)>>
    /\ FirstIsValidSecondIsInvalid

\* compare_players was given a list of its declared shape and the upstream
\* answered a snapshot.
ComparedOnSnapshot ==
    /\ ComparedIntegers
    /\ HasDeclaredShape("compare_players", last.args)
    /\ GotSnapshot

\* The requested ids that some player of the snapshot has, and those that
\* none has, in the order of the request.
ResolvedIds == SelectSeq(RequestedIds, LAMBDA id : HoldsPlayer(id.v))

UnresolvedIds == SelectSeq(RequestedIds, LAMBDA id : ~HoldsPlayer(id.v))

\* C13: for a list of player ids that passes the schema, compare_players
\* answers an error envelope if and only if no id of the list is the id of
\* a player of the snapshot, and the code is then PLAYER_NOT_FOUND; when at
\* least one id resolves, the answer is a success envelope whose
\* validPlayers are the resolved ids' players and whose invalidPlayerIds
\* are exactly the unresolved ids.
C13_ErrorIffNoIdResolves ==
    ComparedOnSnapshot =>
        IF Len(ResolvedIds) = 0
        THEN AnsweredError("PLAYER_NOT_FOUND")
        ELSE /\ Answered
             /\ IsSuccessEnvelope(HandlerText)
             /\ HandlerText.data.invalidPlayerIds = Arr(UnresolvedIds)
             /\ Len(HandlerText.data.validPlayers.items) = Len(ResolvedIds)
             /\ \A i \in 1..Len(ResolvedIds) :
                    HandlerText.data.validPlayers.items[i].id = ResolvedIds[i].v

\* Four ids of which one resolves: a success with three invalid ids.
C13_Witness ==
    /\ ComparedOnSnapshot
    /\ Len(RequestedIds) = 4
    /\ Len(ResolvedIds) = 1
    /\ IsSuccessEnvelope(HandlerText)
    /\ Len(HandlerText.data.invalidPlayerIds.items) = 3

----------------------------------------------------------------------------
\* The lookups of the bootstrap cache (checked under SpecLookup).

\* The method of the cache was called and getBootstrapData returned it a
\* snapshot whose players, teams and positions are lists.
LookedUp(method) ==
    /\ Invoked
    /\ last.tool = method
    /\ last.boot.kind = "return"
    /\ IsArray(last.boot.value.elements)
    /\ IsArray(last.boot.value.teams)
    /\ IsArray(last.boot.value.element_types)

\* The players the cache worked on.
CachePlayers == last.boot.value.elements.items

\* get_player_stats was given a player id of its declared shape and the
\* upstream answered a snapshot.
AskedStatsOnSnapshot ==
    /\ Invoked
    /\ last.tool = "get_player_stats"
    /\ HasDeclaredShape("get_player_stats", last.args)
    /\ GotSnapshot

\* C14: for every id in 1..1000 that no player of the snapshot has,
\* getPlayerById returns null and get_player_stats answers an error
\* envelope of code PLAYER_NOT_FOUND; for an id that a player of the
\* snapshot has, getPlayerById returns that player and get_player_stats
\* answers a success envelope with that player's data.
C14_AbsentIdIsNotFound ==
    /\ LookedUp("getPlayerById") =>
            IF \E i \in 1..Len(CachePlayers) : CachePlayers[i].id = last.args.v
            THEN /\ last.result.kind = "return"
                 /\ last.result.value # Null
                 /\ last.result.value.id = last.args.v
            ELSE IsIntegerIn(last.args, 1, 1000) => last.result = Returned(Null)
    /\ AskedStatsOnSnapshot =>
            IF HoldsPlayer(last.args.playerId.v)
            THEN /\ Answered
                 /\ IsSuccessEnvelope(HandlerText)
                 /\ HandlerText.data.id = last.args.playerId.v
            ELSE AnsweredError("PLAYER_NOT_FOUND")

\* getPlayerById was called with 999 on a snapshot with players, none of
\* them 999, and returned null.
C14_Witness ==
    /\ LookedUp("getPlayerById")
    /\ last.args = Num(999)
    /\ Len(CachePlayers) > 0
    /\ last.result = Returned(Null)

\* The names of the players are strings.
NamesAreStrings ==
    \A i \in 1..Len(CachePlayers) :
        \A k \in {"web_name", "first_name", "second_name"} :
            CachePlayers[i][k].t = "string"

\* The trimmed, lowercased query is a substring of the lowercased display
\* name, of "first last", of the first name or of the last name.
MatchesQuery(player, query) ==
    \E name \in { player.web_name.chars,
                  player.first_name.chars \o <<" ">> \o player.second_name.chars,
                  player.first_name.chars,
                  player.second_name.chars } :
        Includes(ToLowerCase(name), Trim(ToLowerCase(query.chars)))

\* The positions in the snapshot of the players that match the query.
MatchingPositions ==
    {i \in 1..Len(CachePlayers) : MatchesQuery(CachePlayers[i], last.args)}

\* The position of the k-th matching player.
KthMatch(k) ==
    CHOOSE i \in MatchingPositions :
        Cardinality({j \in MatchingPositions : j <= i}) = k

\* C15: searchPlayers returns the first min(10, number of matches)
\* matching players in the order of the snapshot: the k-th result is the
\* k-th matching player of the snapshot, so that no result fails to match
\* and no earlier match is skipped.
C15_FirstTenMatchesInOrder ==
    (LookedUp("searchPlayers") /\ NamesAreStrings) =>
        /\ last.result.kind = "return"
        /\ Len(last.result.value) =
               (IF Cardinality(MatchingPositions) < 10
                THEN Cardinality(MatchingPositions) ELSE 10)
        /\ \A k \in 1..Len(last.result.value) :
               /\ last.result.value[k].id = CachePlayers[KthMatch(k)].id
               /\ last.result.value[k].name = CachePlayers[KthMatch(k)].web_name

\* A search with more than 10 matches, among them players after
\* non-matching ones, returned 10 players.
C15_Witness ==
    /\ LookedUp("searchPlayers")
    /\ NamesAreStrings
    /\ Cardinality(MatchingPositions) > 10
    /\ \E i \in 1..Len(CachePlayers) : i \notin MatchingPositions /\ i < KthMatch(10)
    /\ last.result.kind = "return"
    /\ Len(last.result.value) = 10

----------------------------------------------------------------------------
\* The current gameweek (checked under SpecTools).

\* get_current_gameweek was invoked and the upstream answered bootstrap
\* data.
AskedCurrentGameweek ==
    /\ Invoked
    /\ last.tool = "get_current_gameweek"
    /\ last.answers.getBootstrapData.t = "resolve"
    /\ Truthy(SnapshotData)

\* The events of the upstream, when they are a list.
GameweekEvents == SnapshotData.events.items

\* The first event flagged is_current and the first flagged is_next.
FlaggedCurrent == {i \in 1..Len(GameweekEvents) : GameweekEvents[i].is_current}

FlaggedNext == {i \in 1..Len(GameweekEvents) : GameweekEvents[i].is_next}

First(positions) == CHOOSE i \in positions : \A j \in positions : i <= j

\* C16: get_current_gameweek reports the event flagged is_current, with
\* that event's finished flag and the id of the is_next event as next,
\* whenever there is one; when no event is flagged is_current and one is
\* flagged is_next, it reports that event as current with finished false,
\* whatever the event's own finished flag.
C16_CurrentElseNextUnfinished ==
    (AskedCurrentGameweek /\ IsArray(SnapshotData.events)) =>
        IF FlaggedCurrent # {}
        THEN /\ Answered
             /\ IsSuccessEnvelope(HandlerText)
             /\ HandlerText.data.current = GameweekEvents[First(FlaggedCurrent)].id
             /\ HandlerText.data.finished = GameweekEvents[First(FlaggedCurrent)].finished
             /\ IF FlaggedNext # {}
                THEN HandlerText.data.next = Num(GameweekEvents[First(FlaggedNext)].id)
                ELSE "next" \notin DOMAIN HandlerText.data
        ELSE FlaggedNext # {} =>
             /\ Answered
             /\ IsSuccessEnvelope(HandlerText)
             /\ HandlerText.data.current = GameweekEvents[First(FlaggedNext)].id
             /\ HandlerText.data.finished = FALSE

\* No event is current, the next event is itself flagged finished, and the
\* answer reports it as the current, unfinished gameweek.
C16_Witness ==
    /\ AskedCurrentGameweek
    /\ IsArray(SnapshotData.events)
    /\ FlaggedCurrent = {}
    /\ FlaggedNext # {}
    /\ GameweekEvents[First(FlaggedNext)].finished
    /\ IsSuccessEnvelope(HandlerText)
    /\ HandlerText.data.finished = FALSE

\* The upstream holds no events at all, or events of which none is
\* flagged is_current or is_next.
NoGameweekResolvable ==
    /\ AskedCurrentGameweek
    /\ \/ SnapshotData.events = Undefined
       \/ /\ IsArray(SnapshotData.events)
          /\ FlaggedCurrent = {}
          /\ FlaggedNext = {}

\* C17: when the upstream events hold neither an is_current nor an
\* is_next event, or when there are no events, get_current_gameweek
\* answers an error envelope of code GAMEWEEK_NOT_FOUND or
\* NO_DATA_AVAILABLE.
C17_NoGameweekIsADomainError ==
    NoGameweekResolvable =>
        \/ AnsweredError("GAMEWEEK_NOT_FOUND")
        \/ AnsweredError("NO_DATA_AVAILABLE")

----------------------------------------------------------------------------
\* The fixtures of a gameweek (checked under SpecTools).

\* The fixtures the upstream answered, when they are a list.
UpstreamFixtures == last.answers.getFixtures.data.items

\* The positions in the upstream list of the fixtures of the gameweek asked.
OfGameweek == {i \in 1..Len(UpstreamFixtures) :
                  UpstreamFixtures[i].event = last.args.gameweek.v}

\* get_gameweek_fixtures was asked a gameweek in 1..38, the upstream
\* answered bootstrap data with a list of teams and a list of fixtures, and
\* the teams of every fixture of the gameweek are listed.
AskedFixturesOfValidGameweek ==
    /\ Invoked
    /\ last.tool = "get_gameweek_fixtures"
    /\ last.args.t = "obj"
    /\ "gameweek" \in DOMAIN last.args
    /\ IsIntegerIn(last.args.gameweek, 1, 38)
    /\ last.answers.getBootstrapData.t = "resolve"
    /\ Truthy(SnapshotData)
    /\ IsArray(SnapshotData.teams)
    /\ last.answers.getFixtures.t = "resolve"
    /\ IsArray(last.answers.getFixtures.data)
    /\ \A i \in OfGameweek :
           \A id \in {UpstreamFixtures[i].team_h, UpstreamFixtures[i].team_a} :
               \E k \in 1..Len(SnapshotData.teams.items) :
                   SnapshotData.teams.items[k].id = id

\* The fixtures of the answer.
AnsweredFixtures == HandlerText.data.items

Scheduled(fixture) == fixture.kickoffTime # Lit("TBD")

----------------------------------------------------------------------------
\* Searches without a match (checked under SpecTools).

\* The records a search tool looks through: the players for
\* search_players, the teams for search_teams.
SearchedRecords ==
    IF last.tool = "search_players" THEN last.boot.value.elements
    ELSE last.boot.value.teams

\* The names a record is matched by.
SearchedNames ==
    IF last.tool = "search_players"
    THEN {"web_name", "first_name", "second_name"}
    ELSE {"name", "short_name"}

\* The trimmed, lowercased query is a substring of a lowercased name of
\* the record or, for a player, of "first last".
RecordMatches(record) ==
    LET query == Trim(ToLowerCase(last.args.query.chars))
    IN  \/ \E k \in SearchedNames : Includes(ToLowerCase(record[k].chars), query)
        \/ /\ last.tool = "search_players"
           /\ Includes(ToLowerCase(record.first_name.chars \o <<" ">>
                                   \o record.second_name.chars), query)

\* A search tool was given a query of 1 to 100 characters, the cache
\* returned a snapshot whose records are a list with names, and no record
\* matches the query.
SearchedWithoutMatch ==
    /\ Invoked
    /\ last.tool \in {"search_players", "search_teams"}
    /\ HasDeclaredShape(last.tool, last.args)
    /\ last.boot.kind = "return"
    /\ IsArray(SearchedRecords)
    /\ \A i \in 1..Len(SearchedRecords.items) :
           /\ \A k \in SearchedNames : SearchedRecords.items[i][k].t = "string"
           /\ ~RecordMatches(SearchedRecords.items[i])

\* C19: search_players and search_teams, given a valid query that no
\* record matches, answer a success envelope whose data hold an empty
\* results list and a message, never an error envelope.
C19_NoMatchIsAnEmptySuccess ==
    SearchedWithoutMatch =>
        /\ Answered
        /\ IsSuccessEnvelope(HandlerText)
        /\ DOMAIN HandlerText.data = {"t", "message", "results"}
        /\ HandlerText.data.results = Arr(<<>>)
        /\ HandlerText.data.message.t = "string"

\* search_players found no player matching "zz" among the players of the
\* snapshot and answered a success with no results.
C19_Witness ==
    /\ SearchedWithoutMatch
    /\ last.tool = "search_players"
    /\ last.args.query = Str(<<"z", "z">>)
    /\ Len(SearchedRecords.items) > 0
    /\ IsSuccessEnvelope(HandlerText)
    /\ HandlerText.data.results = Arr(<<>>)

----------------------------------------------------------------------------
\* The classification of upstream errors (checked under SpecClassify).

\* handleApiError has classified the error at hand.
Classified == last.tool = "handleApiError" /\ last.result # NoResult

ClassifiedAs(code) ==
    /\ last.result.kind = "return"
    /\ last.result.value.error = TRUE
    /\ last.result.value.code = code

\* C20: handleApiError applies its rules in strict priority order for
\* every combination of HTTP status and error code: status 429 gives
\* API_RATE_LIMITED whatever the code; otherwise ENOTFOUND or ECONNREFUSED
\* gives NETWORK_ERROR; otherwise ETIMEDOUT gives API_TIMEOUT, also when
\* the status is 500 or more; otherwise a status of 500 or more gives
\* API_UNAVAILABLE; every other error gives API_INVALID_RESPONSE.
C20_ClassificationInPriorityOrder ==
    Classified =>
        /\ last.status = 429 => ClassifiedAs("API_RATE_LIMITED")
        /\ (last.status # 429 /\ last.code \in {"ENOTFOUND", "ECONNREFUSED"})
               => ClassifiedAs("NETWORK_ERROR")
        /\ (last.status # 429 /\ last.code = "ETIMEDOUT")
               => ClassifiedAs("API_TIMEOUT")
        /\ (/\ last.status # 429
            /\ last.code \notin {"ENOTFOUND", "ECONNREFUSED", "ETIMEDOUT"}
            /\ last.status >= 500)
               => ClassifiedAs("API_UNAVAILABLE")
        /\ (/\ last.status # 429
            /\ last.code \notin {"ENOTFOUND", "ECONNREFUSED", "ETIMEDOUT"}
            /\ last.status < 500)
               => ClassifiedAs("API_INVALID_RESPONSE")

\* A timeout that came with a response of status 503 was classified as a
\* timeout.
C20_Witness ==
    /\ Classified
    /\ last.status = 503
    /\ last.code = "ETIMEDOUT"
    /\ ClassifiedAs("API_TIMEOUT")

----------------------------------------------------------------------------
\* Error propagation through safeExecute (checked under SpecSafeExecute).

\* safeExecute has run an operation that threw.
ExecutedThrowing ==
    /\ last.tool = "safeExecute"
    /\ last.result # NoResult
    /\ last.op.kind = "throw"

\* C21: when the operation run under safeExecute throws an FPLError, the
\* error response carries exactly that error's code, message and details,
\* whichever of the 14 codes it is; every other exception, and no
\* FPLError unless that is its own code, becomes INTERNAL_ERROR.
C21_FPLErrorPassesThroughUnchanged ==
    ExecutedThrowing =>
        /\ last.result.kind = "return"
        /\ last.result.value.error = TRUE
        /\ IF last.op.err.name = "FPLError"
           THEN /\ last.result.value.code = last.op.err.code
                /\ last.result.value.message = last.op.err.message
                /\ last.result.value.details = last.op.err.details
           ELSE last.result.value.code = "INTERNAL_ERROR"

\* An FPLError of code API_TIMEOUT with details came out with its code,
\* message and details.
C21_Witness ==
    /\ ExecutedThrowing
    /\ last.op.err.name = "FPLError"
    /\ last.op.err.code = "API_TIMEOUT"
    /\ last.op.err.details # Undefined
    /\ last.result.value.code = "API_TIMEOUT"
    /\ last.result.value.details = last.op.err.details

----------------------------------------------------------------------------
\* The formation of a manager's team (checked under SpecTools).

\* get_manager_team answered a team.
AnsweredManagerTeam ==
    /\ Answered
    /\ last.tool = "get_manager_team"
    /\ IsSuccessEnvelope(HandlerText)

\* The picks the upstream answered.
UpstreamPicks == last.answers.getManagerGameweekPicks.data.picks.items

\* The number of picks in the slots 1..11 whose element type the bootstrap
\* data name so.
StartersNamed(position) ==
    Cardinality({i \in 1..Len(UpstreamPicks) :
        /\ UpstreamPicks[i].position <= 11
        /\ \E k \in 1..Len(last.boot.value.element_types.items) :
               /\ last.boot.value.element_types.items[k].id = UpstreamPicks[i].element_type
               /\ last.boot.value.element_types.items[k].singular_name = position})

\* C22: the formation of get_manager_team is "D-M-F", D, M and F the
\* numbers of Defender, Midfielder and Forward picks among the picks of the
\* slots 1..11; the picks of the slots 12..15 and the goalkeepers do not
\* count.
C22_FormationCountsStartersOnly ==
    AnsweredManagerTeam =>
        HandlerText.data.formation =
            <<StartersNamed("Defender"), "-", StartersNamed("Midfielder"), "-",
              StartersNamed("Forward")>>

\* A goalkeeper, 4 defenders, 4 midfielders and 2 forwards start and four
\* forwards sit on the bench: the formation is 4-4-2.
C22_Witness ==
    /\ AnsweredManagerTeam
    /\ Len(UpstreamPicks) = 15
    /\ \A i \in 12..15 : UpstreamPicks[i].position = i /\ UpstreamPicks[i].element_type = 4
    /\ StartersNamed("Goalkeeper") = 1
    /\ HandlerText.data.formation = <<4, "-", 4, "-", 2>>

----------------------------------------------------------------------------
\* The tool surface (checked under SpecDispatch).

\* The tools of the tool table.
ToolTable ==
    {"search_players", "search_teams", "get_current_gameweek", "get_player_stats",
     "get_gameweek_fixtures", "compare_players", "get_team_info", "get_manager_team"}

\* The request was passed to a handler, which ran to its response.
Dispatched == "handler" \in DOMAIN last

\* C24: a request that names a tool of the table, get_manager_team with a
\* managerId in 1..10,000,000 and an optional gameweek in 1..38 among
\* them, is dispatched to the handler of that tool.
C24_ManagerTeamIsDispatched ==
    (/\ Invoked
     /\ last.tool \in ToolTable
     /\ HasDeclaredShape(last.tool, last.args))
        => Dispatched

----------------------------------------------------------------------------
\* The fields of the bootstrap cache (checked under SpecCache).

\* The complete responses of the upstream: each carries its collections.
CompleteResponses ==
    {r.data : r \in {q \in CacheResponses : q.t # "throw"}} \ {Null, NoElements}

\* C25: whatever the interleaving of getBootstrapData calls and clearCache,
\* cache is null exactly when lastFetch is 0, and a cache that is not null
\* is a response of the upstream whose elements, teams and element_types
\* are all present.
C25_CacheNullIffNeverStamped ==
    /\ (cache = Null) <=> (lastFetch = 0)
    /\ cache # Null =>
        /\ cache \in CompleteResponses
        /\ Truthy(cache.elements)
        /\ Truthy(cache.teams)
        /\ Truthy(cache.element_types)

\* C25's case: a snapshot stored again after a clearCache, while a response
\* without players was turned away.
C25_Witness ==
    /\ cache # Null
    /\ lastFetch # 0
    /\ \E c \in Calls : Settled(c) /\ calls[c].cleared /\ calls[c].stored # NotStored
    /\ \E c \in Calls : Settled(c) /\ calls[c].resp = Resolves(NoElements)

\* Invocation c settles in this step with the answer of its fetch.
Settles(c) == calls[c].pc = "fetching" /\ calls'[c].pc = "done"

\* C26: the step in which a getBootstrapData call fails, its fetch having
\* thrown or its response having failed the presence check, changes
\* neither cache nor lastFetch; nor does the step in which a call starts.
C26_FailedCallWritesNothing ==
    [][\A c \in Calls :
          ((Settles(c) /\ calls'[c].result.kind = "throw")
             \/ (calls[c].pc = "idle" /\ calls'[c].pc # "idle"))
          => (cache' = cache /\ lastFetch' = lastFetch)]_vars

\* C26's case: a call started on a stale snapshot has failed, and the
\* snapshot is still there under its old timestamp, still stale.
C26_Witness ==
    \E c \in Calls :
        /\ Settled(c)
        /\ calls[c].result.kind = "throw"
        /\ calls[c].startCache # Null
        /\ cache = calls[c].startCache
        /\ lastFetch = calls[c].startLastFetch
        /\ ~IsFresh(cache, lastFetch, clock)

\* Invocation c stores its response in this step, no clearCache having run
\* since it started.
StoresUncleared(c) ==
    Settles(c) /\ calls'[c].stored # NotStored /\ ~calls[c].cleared

\* C27 as stated: with no clearCache, a store never decreases lastFetch,
\* that is, never replaces the snapshot by one whose fetch started earlier.
C27_LastFetchNeverDecreases ==
    [][\A c \in Calls : StoresUncleared(c) => lastFetch' >= lastFetch]_vars

\* C27 as amended: with no clearCache since the storing call started, the
\* lastFetch after its store is the time the call read before issuing its
\* fetch, which is not less than the lastFetch the call saw when it
\* started; so lastFetch does not decrease when nothing was stored in
\* between.
C27_LastFetchIsStartOfStoringCall ==
    [][\A c \in Calls : StoresUncleared(c) =>
          /\ lastFetch' = calls[c].now
          /\ lastFetch' >= calls[c].startLastFetch
          /\ (lastFetch = calls[c].startLastFetch => lastFetch' >= lastFetch)]_vars

\* C27's case: a call replaced an older snapshot by its own and moved
\* lastFetch forward to its start time, and another call, started before
\* it, then stored over it.
C27_Witness ==
    \E c, d \in Calls :
        /\ c # d
        /\ Settled(c) /\ Settled(d)
        /\ ~calls[c].cleared /\ ~calls[d].cleared
        /\ calls[c].stored # NotStored /\ calls[d].stored # NotStored
        /\ calls[d].now < calls[c].now
        /\ calls[c].stored.lastFetch = calls[c].now
        /\ lastFetch = calls[d].now
        /\ d \notin calls[c].after

----------------------------------------------------------------------------
\* The tools that fetch for themselves (checked under SpecTools).

DirectTools ==
    {"get_player_stats", "compare_players", "get_team_info",
     "get_current_gameweek", "get_gameweek_fixtures"}

\* C28: an invocation of get_player_stats, compare_players, get_team_info,
\* get_current_gameweek or get_gameweek_fixtures neither reads nor writes
\* the bootstrap cache: cache and lastFetch are as they were, and when the
\* arguments have the declared shape the handler issues a bootstrap fetch
\* of its own first, whatever the cache holds.
C28_DirectToolsBypassTheCache ==
    [][(last = NoInvocation /\ last' # NoInvocation /\ last'.tool \in DirectTools) =>
          /\ cache' = cache
          /\ lastFetch' = lastFetch
          /\ ~last'.touched
          /\ last'.fetches = 0
          /\ HasDeclaredShape(last'.tool, last'.args) =>
                (Len(last'.up) >= 1 /\ last'.up[1] = "getBootstrapData")]_vars

\* C28's case: a fresh snapshot is cached, and a direct tool, invoked with
\* valid arguments, has fetched the bootstrap data from the upstream.
C28_Witness ==
    /\ Invoked
    /\ last.tool \in DirectTools
    /\ HasDeclaredShape(last.tool, last.args)
    /\ IsFresh(cache, lastFetch, clock)
    /\ last.up[1] = "getBootstrapData"
    /\ last.failure = NoFailure

----------------------------------------------------------------------------
\* Queries of blanks (checked under SpecLookup).

\* A search tool was given a query of 1 to 100 characters, all of them
\* blanks, and the cache returned a snapshot whose collections are lists
\* and whose searched records have names.
SearchedForBlanks ==
    /\ Invoked
    /\ last.tool \in {"search_players", "search_teams"}
    /\ last.args.t = "obj"
    /\ "query" \in DOMAIN last.args
    /\ IsStringOf(last.args.query, 1, 100)
    /\ \A i \in 1..Len(last.args.query.chars) : last.args.query.chars[i] = " "
    /\ last.boot.kind = "return"
    /\ IsArray(last.boot.value.elements)
    /\ IsArray(last.boot.value.teams)
    /\ IsArray(last.boot.value.element_types)
    /\ \A i \in 1..Len(SearchedRecords.items) :
           \A k \in SearchedNames : SearchedRecords.items[i][k].t = "string"

\* C30: a query of blanks only, 1 to 100 of them, is not rejected; it is
\* matched as the empty string, which every name contains, so that
\* search_players answers the first 10 players of the snapshot, in the
\* order of the snapshot, and search_teams answers every team.
C30_BlankQueryMatchesEverything ==
    SearchedForBlanks =>
        /\ Answered
        /\ IsSuccessEnvelope(HandlerText)
        /\ LET results == HandlerText.data.results.items
               records == SearchedRecords.items
           IN  /\ Len(results) =
                      (IF last.tool = "search_players" /\ Len(records) > 10
                       THEN 10 ELSE Len(records))
               /\ \A k \in 1..Len(results) : results[k].id = records[k].id

\* C30's case: search_players, asked for " " on a snapshot of more than
\* 10 players, answered its first 10.
C30_Witness ==
    /\ SearchedForBlanks
    /\ last.tool = "search_players"
    /\ Len(SearchedRecords.items) > 10
    /\ Len(HandlerText.data.results.items) = 10

----------------------------------------------------------------------------
\* The shutdown sequence (checked under SpecShutdown).

Triggered == Len(server.seen) > 0

Exited == server.exit.t = "exited"

\* The exit code a trigger asks for.
RequestedCode(signal) == IF signal \in {"SIGINT", "SIGTERM"} THEN 0 ELSE 1

\* A trigger arrives in this step while a shutdown is in progress.
LaterTrigger ==
    /\ server.isShuttingDown
    /\ Len(server'.seen) = Len(server.seen) + 1

\* C23: whatever the sequence of shutdown triggers, only the first starts a
\* shutdown: from the first trigger on exactly one exit timer has been set,
\* a later trigger sets no timer and leaves the flag raised, and once a
\* trigger has occurred the process eventually exits.
C23_OneShutdownSequenceThatEnds ==
    /\ [](Triggered <=> Len(server.timers) = 1)
    /\ [](~Triggered => server.timers = <<>>)
    /\ [][LaterTrigger =>
            /\ server'.timers = server.timers
            /\ server'.isShuttingDown]_vars
    /\ Triggered ~> Exited

\* C23's case: three triggers have arrived, one timer was set, and the
\* process has exited.
C23_Witness ==
    /\ Len(server.seen) = 3
    /\ Len(server.timers) = 1
    /\ server.isShuttingDown
    /\ Exited

\* C29: the process exits with the code the first trigger asked for,
\* whatever triggers follow during the delay: 0 after SIGINT or SIGTERM,
\* 1 after an uncaught exception or an unhandled rejection.
C29_ExitCodeOfFirstTrigger ==
    Exited => server.exit.code = RequestedCode(server.seen[1])

\* C29's case: the process has exited with 0 after SIGINT followed by an
\* uncaught exception.
C29_Witness ==
    /\ Exited
    /\ Len(server.seen) >= 2
    /\ server.seen[1] = "SIGINT"
    /\ server.seen[2] = "uncaughtException"
    /\ server.exit.code = 0

============================================================================
